---------------------------- MODULE Spec2Model ----------------------------
(***************************************************************************)
(* State-machine model of the volume viewer of medical-3d-client:          *)
(* VolumeViewer3D (src/src/dicom-loader.js, lines 329-1578), of the file    *)
(* loader DicomLoader (lines 1-311) and of the app MedicalImagingApp         *)
(* (src/unnamed/part_000): its start-up, its tool buttons, keyboard          *)
(* shortcuts, preset selector, opacity slider and file upload.               *)
(*                                                                         *)
(* The rendering engine and the tool library are external; their state is  *)
(* modelled by what the viewer's calls do to it:                           *)
(*   - a tool group keeps, per tool, a mode and a set of mouse bindings;   *)
(*     setToolActive adds the given bindings to the tool's bindings,       *)
(*     setToolPassive removes the Primary binding and leaves the tool      *)
(*     Active when another binding (Wheel) remains;                        *)
(*   - a piecewise/colour transfer function keeps one node per scalar      *)
(*     value; adding a point at an existing value replaces that node.      *)
(* Scalar values of the opacity ramp are kept doubled (x2) so that         *)
(* center - width/2 stays an integer; opacities are hundredths.            *)
(* Camera positions and focal points are kept in tenths (x10) and the      *)
(* clipping range in hundredths (x100), so that center +/- 0.8 * diagonal  *)
(* and 0.01 * diagonal stay integers; volume bounds are chosen with an     *)
(* integer diagonal.  Rotation angles are multiples of 90 degrees.         *)
(*                                                                         *)
(* Every synchronous method is one action.  The async methods initialize() *)
(* and displayVolume() are one action per stretch between awaits, and the  *)
(* awaited engine call settles with success or failure.  A synchronous     *)
(* call into the tool group or the engine returns normally, or throws in   *)
(* the engineThrows action.  One initialize() is in flight at a time, and   *)
(* one displayVolume() together with at most one displayVolume() issued    *)
(* while the first is suspended.                                           *)
(***************************************************************************)
EXTENDS Integers, Sequences, FiniteSets, TLC

VARIABLES
    toolGroup,               \* this.toolGroup is non-null
    toolOptions,             \* per tool: bindings and mode in the tool group
    isInitialized,           \* this.isInitialized
    renderingEngine,         \* this.renderingEngine is non-null
    viewport,                \* this.viewport is non-null
    initPc,                  \* position of a pending initialize()
    dvPc,                    \* position of a pending displayVolume()
    dvImageIds,              \* imageIds.length of the pending displayVolume()
    cacheVolume,             \* slices of the volume cached under volumeId
    cacheBounds,             \* imageData.getBounds() of the cached volume
    currentVolumeData,       \* this.currentVolumeData (slice count) or null
    actorPresent,            \* viewport.getActors() is non-empty
    actorVolume,             \* slices of the volume the viewport's actor shows
    dv2Pc,                   \* position of an overlapping displayVolume()
    dv2ImageIds,             \* imageIds.length of the overlapping call
    destroyed,               \* destroy() has run, no step of initialize() since
    scalarOpacity,           \* nodes of the actor's scalar opacity function
    rgbTransferFunction,     \* nodes of the actor's colour transfer function
    globalOpacityMultiplier, \* viewport property globalOpacityMultiplier
    voiRange,                \* viewport.getProperties().voiRange
    transferFunctionPoints,  \* viewport property transferFunctionPoints
    camera,                  \* viewport.getCamera()
    rotation,                \* viewport view presentation rotation (degrees)
    blendMode,               \* blend mode of the volume mapper
    actorBounds,             \* bounds of the volume the viewport's actor shows
    appIsInitialized,        \* MedicalImagingApp.isInitialized
    appPc,                   \* position of MedicalImagingApp.init()
    appMessage,              \* type of the last .app-message shown
    appLoading,              \* the #app-loading overlay is in the document
    appViewer,               \* MedicalImagingApp.volumeViewer is non-null
    appListening,            \* setupEventListeners() has run
    appLoadPc,               \* position of a pending handleFileUpload()
    uploadFiles,             \* the files of the last upload
    uploadResults,           \* what loadMultipleDicomFiles resolved with
    appImageIds,             \* imageIds last handed to displayVolume()
    activeButton,            \* id of the .tool-btn carrying class 'active'
    opacitySlider,           \* value of #opacity-slider (hundredths)
    windowSliders,           \* values of #window-width and #window-center
    lastOp                   \* the call that produced the current state

toolVars == <<toolGroup, toolOptions>>
overlapVars == <<dv2Pc, dv2ImageIds>>
lifeVars == <<isInitialized, renderingEngine, viewport, initPc, dvPc,
              dvImageIds, cacheVolume, cacheBounds, currentVolumeData,
              actorPresent, actorVolume, overlapVars, destroyed>>
tfVars   == <<scalarOpacity, rgbTransferFunction, globalOpacityMultiplier,
              voiRange, transferFunctionPoints>>
viewVars == <<camera, rotation, blendMode, actorBounds>>
uploadVars == <<appLoadPc, uploadFiles, uploadResults, appImageIds>>
sliderVars == <<opacitySlider, windowSliders>>
startVars  == <<appIsInitialized, appPc, appMessage, appLoading, appViewer,
                appListening>>
appVars  == <<startVars, uploadVars, activeButton, sliderVars>>
vars     == <<toolVars, lifeVars, tfVars, viewVars, appVars, lastOp>>

---------------------------------------------------------------------------
(* Bounds and inputs *)

MaxSlices == 3

NoVolume == -1

Undefined == "undefined"

\* cornerstoneTools.*.toolName
TrackballRotateTool == "TrackballRotate"
PanTool == "Pan"
ZoomTool == "Zoom"
Tools == {TrackballRotateTool, PanTool, ZoomTool}

\* cornerstoneTools.Enums.MouseBindings
Primary == "Primary"
Wheel == "Wheel"

\* Names handed to setActiveTool: the three keys of the tool map, the
\* app-level names 'Rotate' and 'Opacity', and names every object literal
\* inherits from Object.prototype.
ObjectPrototypeNames == {"constructor", "toString"}
ToolNameInputs == {"TrackballRotate", "Pan", "Zoom", "Rotate", "Opacity"}
                      \cup ObjectPrototypeNames

---------------------------------------------------------------------------
(* The call record *)

NoCamera == << >>

NoOp == [op |-> "none", name |-> "", width |-> 0, center |-> 0,
         opacity |-> 0, degrees |-> 0, before |-> NoCamera,
         undone |-> NoCamera, outcome |-> "", stages |-> << >>,
         rendered |-> FALSE, again |-> FALSE, failed |-> FALSE]

Call(op, name, outcome) ==
    [NoOp EXCEPT !.op = op, !.name = name, !.outcome = outcome]

\* The record of a setActiveTool call as stored: `again` says that the
\* previous call was the same call with the same outcome.
Stamp(c) == [c EXCEPT !.again = ([lastOp EXCEPT !.again = FALSE] = c)]

---------------------------------------------------------------------------
(* Tool group (ToolGroupManager / toolGroup.* calls) *)

\* Tools added to a fresh group and not yet given a mode.
AddedTools == [t \in Tools |-> [bindings |-> {}, mode |-> "Disabled"]]

SetToolActive(opts, tool, button) ==
    IF tool \in DOMAIN opts
    THEN [opts EXCEPT ![tool] = [bindings |-> @.bindings \cup {button},
                                 mode |-> "Active"]]
    ELSE opts

SetToolPassive(opts, tool) ==
    LET rest == opts[tool].bindings \ {Primary}
    IN [opts EXCEPT ![tool] = [bindings |-> rest,
                               mode |-> IF rest # {} THEN "Active"
                                                     ELSE "Passive"]]

\* setupToolGroup() without its final setToolPassive(Pan).
SetupToolGroupPanForgotten ==
    SetToolActive(
        SetToolActive(AddedTools, ZoomTool, Wheel),
        TrackballRotateTool, Primary)

\* setupToolGroup(): wheel zoom, rotate on the primary button, pan passive.
SetupToolGroup ==
    SetToolPassive(
        SetToolActive(
            SetToolActive(AddedTools, ZoomTool, Wheel),
            TrackballRotateTool, Primary),
        PanTool)

\* toolMap[toolName]: an own key gives the tool's name, a name inherited
\* from Object.prototype gives that (truthy) member, anything else undefined.
ToolMapLookup(toolName) ==
    CASE toolName = "TrackballRotate" -> TrackballRotateTool
      [] toolName = "Pan" -> PanTool
      [] toolName = "Zoom" -> ZoomTool
      [] toolName \in ObjectPrototypeNames -> "Object.prototype." \o toolName
      [] OTHER -> Undefined

\* setActiveTool activating the selected tool before passivating all three.
SetActiveToolOptionsActivateFirst(opts, toolName) ==
    LET actualToolName == ToolMapLookup(toolName)
    IN IF actualToolName = Undefined
       THEN opts
       ELSE SetToolActive(
                SetToolPassive(
                    SetToolPassive(
                        SetToolPassive(
                            SetToolActive(opts, actualToolName, Primary),
                            TrackballRotateTool),
                        PanTool),
                    ZoomTool),
                ZoomTool, Wheel)

\* setActiveTool acting as a toggle: selecting the tool that already holds
\* the primary button releases it.
SetActiveToolOptionsToggle(opts, toolName) ==
    LET actualToolName == ToolMapLookup(toolName)
        passive == SetToolActive(
                       SetToolPassive(
                           SetToolPassive(
                               SetToolPassive(opts, TrackballRotateTool),
                               PanTool),
                           ZoomTool),
                       ZoomTool, Wheel)
    IN IF actualToolName = Undefined
       THEN opts
       ELSE IF actualToolName \in Tools
               /\ Primary \in opts[actualToolName].bindings
            THEN passive
            ELSE SetToolActive(passive, actualToolName, Primary)

\* The tool options setActiveTool(toolName) leaves behind.
SetActiveToolOptions(opts, toolName) ==
    LET actualToolName == ToolMapLookup(toolName)
    IN IF actualToolName = Undefined
       THEN opts
       ELSE SetToolActive(
                SetToolActive(
                    SetToolPassive(
                        SetToolPassive(
                            SetToolPassive(opts, TrackballRotateTool),
                            PanTool),
                        ZoomTool),
                    ZoomTool, Wheel),
                actualToolName, Primary)

setActiveTool(toolName) ==
    /\ toolOptions' = IF toolGroup
                      THEN SetActiveToolOptions(toolOptions, toolName)
                      ELSE toolOptions
    /\ lastOp' = Stamp(Call("setActiveTool", toolName,
                            IF ~toolGroup THEN "no tool group"
                            ELSE IF ToolMapLookup(toolName) = Undefined
                                 THEN "invalid"
                            ELSE IF ToolMapLookup(toolName) \in Tools
                                 THEN "set" ELSE "not a tool"))
    /\ UNCHANGED <<toolGroup, lifeVars, tfVars, viewVars, appVars>>

\* The tool options setRotationEnabled(enabled) leaves behind.
SetRotationEnabledOptions(opts, enabled) ==
    IF enabled
    THEN SetToolActive(opts, TrackballRotateTool, Primary)
    ELSE SetToolPassive(opts, TrackballRotateTool)

setRotationEnabled(enabled) ==
    /\ toolOptions' = IF toolGroup
                      THEN SetRotationEnabledOptions(toolOptions, enabled)
                      ELSE toolOptions
    /\ lastOp' = Call("setRotationEnabled",
                            IF enabled THEN "true" ELSE "false",
                            IF toolGroup THEN "set" ELSE "no tool group")
    /\ UNCHANGED <<toolGroup, lifeVars, tfVars, viewVars, appVars>>

---------------------------------------------------------------------------
(* Engine state of a viewport without / with a freshly bound volume actor *)

NoPoints == {}
NoVoi == << >>

\* A piecewise function keeps one node per x: a point added at the x of an
\* existing node replaces it.
AddPoint(f, x, y) == {n \in f : n[1] # x} \cup {<<x, y>>}

\* What the engine gives a newly bound actor under the 'CT-Bone' viewport
\* preset (one representative; the nodes are the engine's, not the viewer's).
EngineScalarOpacity == AddPoint(AddPoint(NoPoints, -6000, 0), 6000, 1)
EngineRGBTransferFunction ==
    AddPoint(AddPoint(NoPoints, -3000, <<0, 0, 0>>), 3000, <<10, 10, 10>>)
EngineGlobalOpacity == 100

\* The VOI range the engine reports for a bound volume: none, or a range.
EngineVoiRanges == {NoVoi, <<[lower |-> -700, upper |-> 1300]>>}

\* Bounds the engine gives the image data of a created volume, as
\* getBounds() returns them: (xmin, xmax, ymin, ymax, zmin, zmax).
NoBounds == << >>
BoundsBox == <<0, 10, 0, 20, 0, 20>>
BoundsOffCentre == <<-2, 0, 1, 4, 0, 6>>
BoundsInputs == {BoundsBox, BoundsOffCentre}
\* A volume of zero extent: its bounds are one point.
BoundsPoint == <<5, 5, 5, 5, 5, 5>>

\* The camera of a newly created viewport (one representative): position and
\* focal point in tenths, clipping range in hundredths.
EngineCamera ==
    [position |-> <<0, 0, 10>>, focalPoint |-> <<0, 0, 0>>,
     viewUp |-> <<0, 1, 0>>, parallelProjection |-> FALSE,
     viewAngle |-> 30, clippingRange |-> <<1, 100001>>]
EngineRotation == 0
EngineBlendMode == "Composite"

\* Math.sqrt on the perfect squares the bounds above give.
Sqrt(n) == CHOOSE r \in 0..n : r * r = n

\* Math.sqrt(dx^2 + dy^2 + dz^2)
Diagonal(bounds) ==
    Sqrt((bounds[2] - bounds[1]) * (bounds[2] - bounds[1])
         + (bounds[4] - bounds[3]) * (bounds[4] - bounds[3])
         + (bounds[6] - bounds[5]) * (bounds[6] - bounds[5]))

\* The per-axis midpoint (min + max) / 2, in tenths.
Center(bounds) ==
    <<5 * (bounds[1] + bounds[2]), 5 * (bounds[3] + bounds[4]),
      5 * (bounds[5] + bounds[6])>>

\* setupInitialCamera() with the camera.parallelProjection assignment left
\* out.
SetupInitialCameraNoProjection(cam, bounds) ==
    LET c == [cam EXCEPT !.viewAngle = 45]
        center == Center(bounds)
        diagonal == Diagonal(bounds)
    IN IF bounds = NoBounds
       THEN c
       ELSE [c EXCEPT !.focalPoint = center,
                      !.position = <<center[1] + 8 * diagonal,
                                     center[2] - 8 * diagonal,
                                     center[3] + 8 * diagonal>>,
                      !.viewUp = <<0, 0, 1>>,
                      !.clippingRange = <<diagonal, 10000 * diagonal>>]

\* The camera setupInitialCamera() hands to viewport.setCamera: projection
\* and view angle always, the framing only for a volume found in the cache.
SetupInitialCamera(cam, bounds) ==
    LET c == [cam EXCEPT !.parallelProjection = TRUE, !.viewAngle = 45]
        center == Center(bounds)
        diagonal == Diagonal(bounds)
    IN IF bounds = NoBounds
       THEN c
       ELSE [c EXCEPT !.focalPoint = center,
                      !.position = <<center[1] + 8 * diagonal,
                                     center[2] - 8 * diagonal,
                                     center[3] + 8 * diagonal>>,
                      !.viewUp = <<0, 0, 1>>,
                      !.clippingRange = <<diagonal, 10000 * diagonal>>]

---------------------------------------------------------------------------
(* Lifecycle: initialize(), displayVolume(), destroy() *)

\* initialize() up to its first await (cornerstone.init()).
InitializeUntilAwait ==
    /\ initPc = "idle"
    /\ initPc' = "awaitInit"
    /\ destroyed' = FALSE
    /\ lastOp' = Call("initialize", "", "pending")
    /\ UNCHANGED <<toolVars, isInitialized, renderingEngine, viewport, dvPc,
                   dvImageIds, cacheVolume, cacheBounds, currentVolumeData,
                   actorPresent, actorVolume, overlapVars, tfVars, viewVars>>

\* The rest of initialize(): the library's init fails, or the tool group is
\* set up and then the container is missing, or the viewport is created.
InitializeAfterAwait(outcome) ==
    /\ initPc = "awaitInit"
    /\ initPc' = "idle"
    /\ lastOp' = Call("initialize", "", outcome)
    /\ IF outcome = "init failed"
       THEN UNCHANGED <<toolVars, isInitialized, renderingEngine, viewport,
                        actorPresent, actorVolume, tfVars, viewVars>>
       ELSE /\ toolGroup' = TRUE
            /\ toolOptions' = SetupToolGroup
            /\ IF outcome = "no container"
               THEN UNCHANGED <<isInitialized, renderingEngine, viewport,
                                actorPresent, actorVolume, tfVars, viewVars>>
               ELSE /\ renderingEngine' = TRUE
                    /\ viewport' = TRUE
                    /\ isInitialized' = TRUE
                    /\ actorPresent' = FALSE
                    /\ actorVolume' = NoVolume
                    /\ scalarOpacity' = NoPoints
                    /\ rgbTransferFunction' = NoPoints
                    /\ globalOpacityMultiplier' = EngineGlobalOpacity
                    /\ voiRange' = NoVoi
                    /\ transferFunctionPoints' = << >>
                    /\ camera' = EngineCamera
                    /\ rotation' = EngineRotation
                    /\ blendMode' = EngineBlendMode
                    /\ actorBounds' = NoBounds
    /\ destroyed' = FALSE
    /\ UNCHANGED <<dvPc, dvImageIds, cacheVolume, cacheBounds,
                   currentVolumeData, overlapVars>>

\* initialize() called on the viewer.
initializeBegin ==
    /\ InitializeUntilAwait
    /\ UNCHANGED appVars

initializeResume(outcome) ==
    /\ InitializeAfterAwait(outcome)
    /\ UNCHANGED appVars

\* !this.isInitialized, with the check left out.
NotInitializedNeverChecked == FALSE

\* if (!this.isInitialized) throw new Error('Volume viewer not initialized')
NotInitialized == ~isInitialized

\* displayVolume with the eviction of the existing volume left out.
EvictExistingVolumeSkipped(cached) == cached

\* if (cache.getVolume(volumeId)) cache.removeVolumeLoadObject(volumeId)
EvictExistingVolume(cached) == IF cached # NoVolume THEN NoVolume ELSE cached

\* What the catch block of a method leaves of an exception thrown inside its
\* try block, with displayVolume's catch logging like the others.
CatchOutcomeLogsOnly(op) == "error caught"

\* What the catch block of a method leaves of an exception thrown inside its
\* try block: displayVolume's catch throws it again and the promise is
\* rejected, every other catch logs it and the method returns.
CatchOutcome(op) == IF op = "displayVolume" THEN "failed" ELSE "error caught"

\* The record of a call in which the engine threw or an awaited engine
\* promise was rejected.
EngineFailure(op) == [Call(op, "", CatchOutcome(op)) EXCEPT !.failed = TRUE]

\* The positions at which the overlapping displayVolume() is suspended.
OverlapPending == {"create", "load", "bind"}

\* displayVolume(imageIds) up to its first await (createAndCacheVolume).
\* A call is issued here when no other is pending.
DisplayVolumeUntilAwait(n) ==
    /\ dvPc = "idle"
    /\ dv2Pc \notin OverlapPending
    /\ dv2Pc' = "idle"
    /\ dv2ImageIds' = 0
    /\ IF NotInitialized
       THEN /\ lastOp' = Call("displayVolume", "", "not initialized")
            /\ UNCHANGED <<dvPc, dvImageIds, cacheVolume, cacheBounds>>
       ELSE /\ cacheVolume' = EvictExistingVolume(cacheVolume)
            /\ cacheBounds' = IF cacheVolume' = NoVolume THEN NoBounds
                                                         ELSE cacheBounds
            /\ dvPc' = "create"
            /\ dvImageIds' = n
            /\ lastOp' = Call("displayVolume", "", "pending")
    /\ UNCHANGED <<toolVars, isInitialized, renderingEngine, viewport, initPc,
                   currentVolumeData, actorPresent, actorVolume, destroyed,
                   tfVars, viewVars>>

\* displayVolume(imageIds) called on the viewer.
displayVolumeBegin(n) ==
    /\ DisplayVolumeUntilAwait(n)
    /\ UNCHANGED appVars

\* createAndCacheVolume settles: the volume, with the bounds the engine
\* gives its image data, is cached; on success volume.load() is awaited.
displayVolumeCreated(ok, bounds) ==
    /\ dvPc = "create"
    /\ IF ok
       THEN /\ cacheVolume' = dvImageIds
            /\ cacheBounds' = bounds
            /\ dvPc' = "load"
            /\ lastOp' = Call("displayVolume", "", "pending")
            /\ UNCHANGED dvImageIds
       ELSE /\ dvPc' = "idle"
            /\ dvImageIds' = 0
            /\ lastOp' = EngineFailure("displayVolume")
            /\ UNCHANGED <<cacheVolume, cacheBounds>>
    /\ UNCHANGED <<toolVars, isInitialized, renderingEngine, viewport, initPc,
                   currentVolumeData, actorPresent, actorVolume, overlapVars,
                   destroyed, tfVars, viewVars, appVars>>

\* volume.load() settles; on success currentVolumeData is assigned and
\* setVolumesForViewports is awaited.
displayVolumeLoaded(ok) ==
    /\ dvPc = "load"
    /\ IF ok
       THEN /\ currentVolumeData' = dvImageIds
            /\ dvPc' = "bind"
            /\ lastOp' = Call("displayVolume", "", "pending")
            /\ UNCHANGED dvImageIds
       ELSE /\ dvPc' = "idle"
            /\ dvImageIds' = 0
            /\ lastOp' = EngineFailure("displayVolume")
            /\ UNCHANGED currentVolumeData
    /\ UNCHANGED <<toolVars, isInitialized, renderingEngine, viewport, initPc,
                   cacheVolume, cacheBounds, actorPresent, actorVolume,
                   overlapVars, destroyed, tfVars, viewVars, appVars>>

\* setVolumesForViewports settles. It can succeed only while the rendering
\* engine and the viewport exist and the volume is in the cache; then the
\* viewport holds a new actor with the engine's transfer functions for the
\* 'CT-Bone' preset, and setupInitialCamera() places the camera.
displayVolumeBound(ok, voi) ==
    /\ dvPc = "bind"
    /\ dvPc' = "idle"
    /\ dvImageIds' = 0
    /\ IF ok /\ renderingEngine /\ viewport /\ cacheVolume # NoVolume
       THEN /\ actorPresent' = TRUE
            /\ actorVolume' = cacheVolume
            /\ scalarOpacity' = EngineScalarOpacity
            /\ rgbTransferFunction' = EngineRGBTransferFunction
            /\ voiRange' = voi
            /\ blendMode' = EngineBlendMode
            /\ actorBounds' = cacheBounds
            /\ camera' = SetupInitialCamera(camera, cacheBounds)
            /\ lastOp' = [Call("displayVolume", "", "displayed")
                                EXCEPT !.rendered = TRUE]
            /\ UNCHANGED <<globalOpacityMultiplier, transferFunctionPoints,
                           rotation>>
       ELSE /\ lastOp' = EngineFailure("displayVolume")
            /\ UNCHANGED <<actorPresent, actorVolume, tfVars, viewVars>>
    /\ UNCHANGED <<toolVars, isInitialized, renderingEngine, viewport, initPc,
                   cacheVolume, cacheBounds, currentVolumeData, overlapVars,
                   destroyed, appVars>>

\* A second displayVolume(imageIds), issued while the first is suspended
\* with its volume created (at volume.load() or setVolumesForViewports):
\* it evicts the cached volume and awaits createAndCacheVolume.
displayVolumeOverlapping(n) ==
    /\ dvPc \in {"load", "bind"}
    /\ dv2Pc = "idle"
    /\ IF NotInitialized
       THEN /\ lastOp' = Call("displayVolume", "", "not initialized")
            /\ UNCHANGED <<overlapVars, cacheVolume, cacheBounds>>
       ELSE /\ cacheVolume' = EvictExistingVolume(cacheVolume)
            /\ cacheBounds' = IF cacheVolume' = NoVolume THEN NoBounds
                                                         ELSE cacheBounds
            /\ dv2Pc' = "create"
            /\ dv2ImageIds' = n
            /\ lastOp' = Call("displayVolume", "", "pending")
    /\ UNCHANGED <<toolVars, isInitialized, renderingEngine, viewport, initPc,
                   dvPc, dvImageIds, currentVolumeData, actorPresent,
                   actorVolume, destroyed, tfVars, viewVars, appVars>>

\* createAndCacheVolume of the overlapping call settles.
overlappingCreated(ok, bounds) ==
    /\ dv2Pc = "create"
    /\ IF ok
       THEN /\ cacheVolume' = dv2ImageIds
            /\ cacheBounds' = bounds
            /\ dv2Pc' = "load"
            /\ lastOp' = Call("displayVolume", "", "pending")
       ELSE /\ dv2Pc' = "failed"
            /\ lastOp' = EngineFailure("displayVolume")
            /\ UNCHANGED <<cacheVolume, cacheBounds>>
    /\ UNCHANGED <<toolVars, isInitialized, renderingEngine, viewport, initPc,
                   dvPc, dvImageIds, dv2ImageIds, currentVolumeData,
                   actorPresent, actorVolume, destroyed, tfVars, viewVars,
                   appVars>>

\* volume.load() of the overlapping call settles.
overlappingLoaded(ok) ==
    /\ dv2Pc = "load"
    /\ IF ok
       THEN /\ currentVolumeData' = dv2ImageIds
            /\ dv2Pc' = "bind"
            /\ lastOp' = Call("displayVolume", "", "pending")
       ELSE /\ dv2Pc' = "failed"
            /\ lastOp' = EngineFailure("displayVolume")
            /\ UNCHANGED currentVolumeData
    /\ UNCHANGED <<toolVars, isInitialized, renderingEngine, viewport, initPc,
                   dvPc, dvImageIds, dv2ImageIds, cacheVolume, cacheBounds,
                   actorPresent, actorVolume, destroyed, tfVars, viewVars,
                   appVars>>

\* setVolumesForViewports of the overlapping call settles; the call has
\* then displayed its volume or failed.
overlappingBound(ok, voi) ==
    /\ dv2Pc = "bind"
    /\ IF ok /\ renderingEngine /\ viewport /\ cacheVolume # NoVolume
       THEN /\ dv2Pc' = "displayed"
            /\ actorPresent' = TRUE
            /\ actorVolume' = cacheVolume
            /\ scalarOpacity' = EngineScalarOpacity
            /\ rgbTransferFunction' = EngineRGBTransferFunction
            /\ voiRange' = voi
            /\ blendMode' = EngineBlendMode
            /\ actorBounds' = cacheBounds
            /\ camera' = SetupInitialCamera(camera, cacheBounds)
            /\ lastOp' = [Call("displayVolume", "", "displayed")
                                EXCEPT !.rendered = TRUE]
            /\ UNCHANGED <<globalOpacityMultiplier, transferFunctionPoints,
                           rotation>>
       ELSE /\ dv2Pc' = "failed"
            /\ lastOp' = EngineFailure("displayVolume")
            /\ UNCHANGED <<actorPresent, actorVolume, tfVars, viewVars>>
    /\ UNCHANGED <<toolVars, isInitialized, renderingEngine, viewport, initPc,
                   dvPc, dvImageIds, dv2ImageIds, cacheVolume, cacheBounds,
                   currentVolumeData, destroyed, appVars>>

DestroyViewer ==
    /\ toolGroup' = FALSE
    /\ toolOptions' = IF toolGroup THEN AddedTools ELSE toolOptions
    /\ cacheVolume' = NoVolume
    /\ cacheBounds' = NoBounds
    /\ renderingEngine' = FALSE
    /\ viewport' = FALSE
    /\ currentVolumeData' = NoVolume
    /\ isInitialized' = FALSE
    /\ actorPresent' = FALSE
    /\ actorVolume' = NoVolume
    /\ scalarOpacity' = NoPoints
    /\ rgbTransferFunction' = NoPoints
    /\ globalOpacityMultiplier' = EngineGlobalOpacity
    /\ voiRange' = NoVoi
    /\ transferFunctionPoints' = << >>
    /\ camera' = EngineCamera
    /\ rotation' = EngineRotation
    /\ blendMode' = EngineBlendMode
    /\ actorBounds' = NoBounds
    /\ destroyed' = TRUE
    /\ lastOp' = Call("destroy", "", "destroyed")
    /\ UNCHANGED <<initPc, dvPc, dvImageIds, overlapVars>>

\* destroy() called on the viewer.
destroy ==
    /\ DestroyViewer
    /\ UNCHANGED appVars

---------------------------------------------------------------------------
(* MedicalImagingApp.init() (src/unnamed/part_000) *)

\* init() up to `await this.volumeViewer.initialize()`: the overlay is
\* shown, the viewer is constructed and its initialize() runs to its await.
init ==
    /\ appPc = "constructed"
    /\ appPc' = "awaitInitialize"
    /\ appLoading' = TRUE
    /\ appViewer' = TRUE
    /\ InitializeUntilAwait
    /\ UNCHANGED <<appIsInitialized, appMessage, appListening, uploadVars,
                   activeButton, sliderVars>>

\* The rest of init(): initialize() resolved (listeners set up, overlay
\* hidden, flag set, success message) or threw (error message only).
initSettled(outcome) ==
    /\ appPc = "awaitInitialize"
    /\ appPc' = "settled"
    /\ InitializeAfterAwait(outcome)
    /\ IF outcome = "ready"
       THEN /\ appListening' = TRUE
            /\ appLoading' = FALSE
            /\ appIsInitialized' = TRUE
            /\ appMessage' = "success"
       ELSE /\ appMessage' = "error"
            /\ UNCHANGED <<appIsInitialized, appLoading, appListening>>
    /\ UNCHANGED <<appViewer, uploadVars, activeButton, sliderVars>>

---------------------------------------------------------------------------
(* Transfer function, windowing and presets *)

\* The render state the transfer-function calls work on, with the log of
\* the viewer methods run and whether viewport.render() was called.
CurrentTF ==
    [scalarOpacity |-> scalarOpacity,
     rgbTransferFunction |-> rgbTransferFunction,
     globalOpacityMultiplier |-> globalOpacityMultiplier,
     stages |-> << >>,
     rendered |-> FALSE]

\* The guard without its currentVolumeData half.
NoVolumeAvailableViewportOnly == ~viewport

\* !this.viewport || !this.currentVolumeData
NoVolumeAvailable == ~viewport \/ currentVolumeData = NoVolume

\* The two-point ramp (windowMin -> 0.0, windowMax -> 1.0), x doubled.
WindowRamp(width, center) ==
    AddPoint(AddPoint(NoPoints, 2 * center - width, 0), 2 * center + width, 1)

\* setWindowLevel without ofun.removeAllPoints(): the two points are added
\* to the nodes already there.
SetWindowLevelTFNoRemove(tf, width, center) ==
    LET t == [tf EXCEPT !.stages = Append(@, "setWindowLevel")]
    IN IF NoVolumeAvailable \/ ~actorPresent
       THEN t
       ELSE [t EXCEPT !.scalarOpacity =
                          AddPoint(AddPoint(@, 2 * center - width, 0),
                                   2 * center + width, 1),
                      !.rendered = TRUE]

SetWindowLevelTF(tf, width, center) ==
    LET t == [tf EXCEPT !.stages = Append(@, "setWindowLevel")]
    IN IF NoVolumeAvailable \/ ~actorPresent
       THEN t
       ELSE [t EXCEPT !.scalarOpacity = WindowRamp(width, center),
                      !.rendered = TRUE]

\* point.color[0] throws a TypeError for a point without a color field.
PointThrows(point) == "color" \notin DOMAIN point

ForEachThrows(colorPoints) ==
    \E i \in DOMAIN colorPoints : PointThrows(colorPoints[i])

\* colorPoints.forEach(point => addRGBPoint(...)): the points are added in
\* order; a point that throws ends the loop with the earlier points added.
RECURSIVE AddRGBPoints(_, _)
AddRGBPoints(f, colorPoints) ==
    IF colorPoints = << >> \/ PointThrows(Head(colorPoints))
    THEN f
    ELSE AddRGBPoints(AddPoint(f, Head(colorPoints).value,
                               Head(colorPoints).color),
                      Tail(colorPoints))

SetRGBTransferFunctionTF(tf, colorPoints) ==
    LET t == [tf EXCEPT !.stages = Append(@, "setRGBTransferFunction")]
    IN IF NoVolumeAvailable \/ ~actorPresent
       THEN t
       ELSE [t EXCEPT !.rgbTransferFunction =
                          AddRGBPoints(NoPoints, colorPoints),
                      !.rendered = ~ForEachThrows(colorPoints)]

\* setVolumeOpacity with a setProperties that resets the opacity ramp when
\* it stores the multiplier.
SetVolumeOpacityTFResetsRamp(tf, opacity) ==
    LET t == [tf EXCEPT !.stages = Append(@, "setVolumeOpacity")]
    IN IF NoVolumeAvailable
       THEN t
       ELSE [t EXCEPT !.globalOpacityMultiplier = opacity,
                      !.scalarOpacity = NoPoints,
                      !.rendered = TRUE]

SetVolumeOpacityTF(tf, opacity) ==
    LET t == [tf EXCEPT !.stages = Append(@, "setVolumeOpacity")]
    IN IF NoVolumeAvailable
       THEN t
       ELSE [t EXCEPT !.globalOpacityMultiplier = opacity,
                      !.rendered = TRUE]

\* apply3DPreset's three stages, each run only when its field is present.
PresetWindowStage(tf, preset) ==
    IF preset.windowLevel # << >>
    THEN SetWindowLevelTF(tf, preset.windowLevel[1].width,
                          preset.windowLevel[1].center)
    ELSE tf

PresetColorStage(tf, preset) ==
    IF Len(preset.colorPoints) > 0
    THEN SetRGBTransferFunctionTF(tf, preset.colorPoints)
    ELSE tf

PresetOpacityStage(tf, preset) ==
    IF preset.opacity # << >>
    THEN SetVolumeOpacityTF(tf, preset.opacity[1])
    ELSE tf

\* apply3DPreset with the colour stage run before the window stage.
Apply3DPresetTFColorFirst(tf, preset) ==
    IF NoVolumeAvailable
    THEN tf
    ELSE PresetOpacityStage(
             PresetWindowStage(PresetColorStage(tf, preset), preset),
             preset)

Apply3DPresetTF(tf, preset) ==
    IF NoVolumeAvailable
    THEN tf
    ELSE PresetOpacityStage(
             PresetColorStage(PresetWindowStage(tf, preset), preset),
             preset)

\* Store a computed render state and the record of the call.
StoreTF(tf, call) ==
    /\ scalarOpacity' = tf.scalarOpacity
    /\ rgbTransferFunction' = tf.rgbTransferFunction
    /\ globalOpacityMultiplier' = tf.globalOpacityMultiplier
    /\ lastOp' = [call EXCEPT !.stages = tf.stages,
                              !.rendered = tf.rendered]

TFOutcome == IF NoVolumeAvailable THEN "no volume"
             ELSE IF actorPresent THEN "set" ELSE "no actor"

setWindowLevel(width, center) ==
    /\ StoreTF(SetWindowLevelTF(CurrentTF, width, center),
               [Call("setWindowLevel", "", TFOutcome)
                   EXCEPT !.width = width, !.center = center])
    /\ UNCHANGED <<toolVars, lifeVars, voiRange, transferFunctionPoints,
                   viewVars, appVars>>

setRGBTransferFunction(name, colorPoints) ==
    /\ StoreTF(SetRGBTransferFunctionTF(CurrentTF, colorPoints),
               Call("setRGBTransferFunction", name,
                    IF TFOutcome = "set" /\ ForEachThrows(colorPoints)
                    THEN "error caught" ELSE TFOutcome))
    /\ UNCHANGED <<toolVars, lifeVars, voiRange, transferFunctionPoints,
                   viewVars, appVars>>

setVolumeOpacity(opacity) ==
    /\ StoreTF(SetVolumeOpacityTF(CurrentTF, opacity),
               [Call("setVolumeOpacity", "",
                     IF NoVolumeAvailable THEN "no volume" ELSE "set")
                   EXCEPT !.opacity = opacity])
    /\ UNCHANGED <<toolVars, lifeVars, voiRange, transferFunctionPoints,
                   viewVars, appVars>>

apply3DPreset(preset) ==
    /\ StoreTF(Apply3DPresetTF(CurrentTF, preset),
               Call("apply3DPreset", preset.name, TFOutcome))
    /\ UNCHANGED <<toolVars, lifeVars, voiRange, transferFunctionPoints,
                   viewVars, appVars>>

\* getWindowLevel(): width and (doubled) center read from the VOI range.
getWindowLevel ==
    IF NoVolumeAvailable \/ voiRange = NoVoi
    THEN [width |-> 400, center2 |-> 2 * 50]
    ELSE LET lower == voiRange[1].lower
             upper == voiRange[1].upper
             width == upper - lower
         IN [width |-> width, center2 |-> 2 * lower + width]

\* A value that is not a number: a member the preset table inherits from
\* Object.prototype, which setProperties stores as it is handed.
NotANumber == -1

\* opacityPresets[presetName] (hundredths): the value, if any, that is not
\* undefined.
OpacityPresetLookup(presetName) ==
    CASE presetName = "default" -> << 50 >>
      [] presetName = "bone" -> << 70 >>
      [] presetName = "soft" -> << 40 >>
      [] presetName = "lung" -> << 30 >>
      [] presetName = "vessel" -> << 80 >>
      [] presetName = "transparent" -> << 20 >>
      [] presetName = "opaque" -> << 90 >>
      [] presetName \in ObjectPrototypeNames -> << NotANumber >>
      [] OTHER -> << >>

\* applyOpacityPreset(presetName): setVolumeOpacity with the table's value.
applyOpacityPreset(presetName) ==
    /\ IF OpacityPresetLookup(presetName) # << >>
       THEN StoreTF(SetVolumeOpacityTF(CurrentTF,
                                       OpacityPresetLookup(presetName)[1]),
                    [Call("applyOpacityPreset", presetName,
                          IF NoVolumeAvailable THEN "no volume" ELSE "set")
                        EXCEPT !.opacity = OpacityPresetLookup(presetName)[1]])
       ELSE StoreTF(CurrentTF,
                    Call("applyOpacityPreset", presetName, "invalid"))
    /\ opacitySlider' = IF OpacityPresetLookup(presetName) # << >>
                        THEN OpacityPresetLookup(presetName)[1]
                        ELSE opacitySlider
    /\ UNCHANGED <<toolVars, lifeVars, voiRange, transferFunctionPoints,
                   viewVars, startVars, uploadVars, activeButton,
                   windowSliders>>

\* tissueRanges (HU) and tissueColors (tenths).
TissueRanges ==
    [bone |-> [min |-> 200, max |-> 2000],
     softtissue |-> [min |-> -100, max |-> 200],
     lung |-> [min |-> -1000, max |-> -100],
     vessel |-> [min |-> 100, max |-> 400]]

TissueColors ==
    [bone |-> <<10, 9, 8>>,
     softtissue |-> <<9, 7, 6>>,
     lung |-> <<4, 6, 8>>,
     vessel |-> <<8, 2, 2>>]

\* tissueRanges[tissue] is truthy: an own key of the table, or a member
\* the table inherits from Object.prototype.
TissueRangeFound(tissue) ==
    tissue \in DOMAIN TissueRanges \/ tissue \in ObjectPrototypeNames

\* range.min and range.max: undefined (no value) on an inherited member.
TissueRangeEnds(tissue) ==
    IF tissue \in DOMAIN TissueRanges
    THEN << <<TissueRanges[tissue].min>>, <<TissueRanges[tissue].max>> >>
    ELSE << << >>, << >> >>

\* getTissueColor(tissue): tissueColors[tissue] || [1.0, 1.0, 1.0]; an
\* inherited member is truthy and is returned as it is.
GetTissueColor(tissue) ==
    IF tissue \in DOMAIN TissueColors THEN TissueColors[tissue]
    ELSE IF tissue \in ObjectPrototypeNames
         THEN <<"Object.prototype." \o tissue>>
         ELSE <<10, 10, 10>>

\* Object.entries(tissueOpacities).forEach(...): two points per entry whose
\* tissue has a range, in the order of the entries.
RECURSIVE TissuePoints(_)
TissuePoints(entries) ==
    IF entries = << >> THEN << >>
    ELSE LET tissue == Head(entries)[1]
             opacity == Head(entries)[2]
         IN (IF TissueRangeFound(tissue)
             THEN << [value |-> TissueRangeEnds(tissue)[1],
                      opacity |-> opacity,
                      color |-> GetTissueColor(tissue)],
                     [value |-> TissueRangeEnds(tissue)[2],
                      opacity |-> opacity,
                      color |-> GetTissueColor(tissue)] >>
             ELSE << >>)
            \o TissuePoints(Tail(entries))

\* setTissueOpacities(tissueOpacities): name names the map, entries are its
\* Object.entries.
setTissueOpacities(name, entries) ==
    /\ transferFunctionPoints' =
           IF ~NoVolumeAvailable /\ Len(TissuePoints(entries)) > 0
           THEN TissuePoints(entries)
           ELSE transferFunctionPoints
    /\ lastOp' = [Call("setTissueOpacities", name,
                       IF NoVolumeAvailable THEN "no volume" ELSE "set")
                     EXCEPT !.rendered = /\ ~NoVolumeAvailable
                                         /\ Len(TissuePoints(entries)) > 0]
    /\ UNCHANGED <<toolVars, lifeVars, scalarOpacity, rgbTransferFunction,
                   globalOpacityMultiplier, voiRange, viewVars, appVars>>

---------------------------------------------------------------------------
(* Camera and rendering mode *)

\* String.prototype.toLowerCase on the names handed to the camera calls.
ToLowerCase(str) ==
    CASE str = "Z" -> "z"
      [] str = "Superior" -> "superior"
      [] OTHER -> str

\* Math.cos / Math.sin of degrees * PI / 180 for multiples of 90 degrees.
Cos(degrees) ==
    CASE degrees % 360 = 0 -> 1
      [] degrees % 360 = 90 -> 0
      [] degrees % 360 = 180 -> -1
      [] degrees % 360 = 270 -> 0

Sin(degrees) ==
    CASE degrees % 360 = 0 -> 0
      [] degrees % 360 = 90 -> 1
      [] degrees % 360 = 180 -> 0
      [] degrees % 360 = 270 -> -1

\* rotateAroundAxis with the view-up of the 'y' case turned by a matrix
\* that is no rotation (+sin in both rows).
RotateAroundAxisCameraSignSlip(cam, axis, degrees) ==
    LET position == cam.position
        focalPoint == cam.focalPoint
        viewUp == cam.viewUp
        direction == <<position[1] - focalPoint[1],
                       position[2] - focalPoint[2],
                       position[3] - focalPoint[3]>>
        cos == Cos(degrees)
        sin == Sin(degrees)
    IN CASE ToLowerCase(axis) = "x" ->
              [cam EXCEPT
                 !.position =
                     <<position[1],
                       focalPoint[2] + direction[2] * cos - direction[3] * sin,
                       focalPoint[3] + direction[2] * sin + direction[3] * cos>>,
                 !.viewUp =
                     <<viewUp[1],
                       viewUp[2] * cos - viewUp[3] * sin,
                       viewUp[2] * sin + viewUp[3] * cos>>]
         [] ToLowerCase(axis) = "y" ->
              [cam EXCEPT
                 !.position =
                     <<focalPoint[1] + direction[1] * cos + direction[3] * sin,
                       position[2],
                       focalPoint[3] - direction[1] * sin + direction[3] * cos>>,
                 !.viewUp =
                     <<viewUp[1] * cos + viewUp[3] * sin,
                       viewUp[2],
                       viewUp[1] * sin + viewUp[3] * cos>>]
         [] ToLowerCase(axis) = "z" ->
              [cam EXCEPT
                 !.position =
                     <<focalPoint[1] + direction[1] * cos - direction[2] * sin,
                       focalPoint[2] + direction[1] * sin + direction[2] * cos,
                       position[3]>>,
                 !.viewUp =
                     <<viewUp[1] * cos - viewUp[2] * sin,
                       viewUp[1] * sin + viewUp[2] * cos,
                       viewUp[3]>>]
         [] OTHER -> cam

\* rotateAroundAxis with the z case turning the third coordinate of the
\* position as well (the axis coordinate is no longer kept).
RotateAroundAxisCameraAxisDrift(cam, axis, degrees) ==
    LET position == cam.position
        focalPoint == cam.focalPoint
        viewUp == cam.viewUp
        direction == <<position[1] - focalPoint[1],
                       position[2] - focalPoint[2],
                       position[3] - focalPoint[3]>>
        cos == Cos(degrees)
        sin == Sin(degrees)
    IN CASE ToLowerCase(axis) = "x" ->
              [cam EXCEPT
                 !.position =
                     <<position[1],
                       focalPoint[2] + direction[2] * cos - direction[3] * sin,
                       focalPoint[3] + direction[2] * sin + direction[3] * cos>>,
                 !.viewUp =
                     <<viewUp[1],
                       viewUp[2] * cos - viewUp[3] * sin,
                       viewUp[2] * sin + viewUp[3] * cos>>]
         [] ToLowerCase(axis) = "y" ->
              [cam EXCEPT
                 !.position =
                     <<focalPoint[1] + direction[1] * cos + direction[3] * sin,
                       position[2],
                       focalPoint[3] - direction[1] * sin + direction[3] * cos>>,
                 !.viewUp =
                     <<viewUp[1] * cos + viewUp[3] * sin,
                       viewUp[2],
                       -viewUp[1] * sin + viewUp[3] * cos>>]
         [] ToLowerCase(axis) = "z" ->
              [cam EXCEPT
                 !.position =
                     <<focalPoint[1] + direction[1] * cos - direction[2] * sin,
                       focalPoint[2] + direction[1] * sin + direction[2] * cos,
                       focalPoint[3] + direction[3] * cos>>,
                 !.viewUp =
                     <<viewUp[1] * cos - viewUp[2] * sin,
                       viewUp[1] * sin + viewUp[2] * cos,
                       viewUp[3]>>]
         [] OTHER -> cam

\* The camera rotateAroundAxis hands to viewport.setCamera.  The 'o' case
\* throws a ReferenceError (e is not defined) that the catch swallows, and
\* any other axis returns at the default case: the camera stays as it is.
RotateAroundAxisCamera(cam, axis, degrees) ==
    LET position == cam.position
        focalPoint == cam.focalPoint
        viewUp == cam.viewUp
        direction == <<position[1] - focalPoint[1],
                       position[2] - focalPoint[2],
                       position[3] - focalPoint[3]>>
        cos == Cos(degrees)
        sin == Sin(degrees)
    IN CASE ToLowerCase(axis) = "x" ->
              [cam EXCEPT
                 !.position =
                     <<position[1],
                       focalPoint[2] + direction[2] * cos - direction[3] * sin,
                       focalPoint[3] + direction[2] * sin + direction[3] * cos>>,
                 !.viewUp =
                     <<viewUp[1],
                       viewUp[2] * cos - viewUp[3] * sin,
                       viewUp[2] * sin + viewUp[3] * cos>>]
         [] ToLowerCase(axis) = "y" ->
              [cam EXCEPT
                 !.position =
                     <<focalPoint[1] + direction[1] * cos + direction[3] * sin,
                       position[2],
                       focalPoint[3] - direction[1] * sin + direction[3] * cos>>,
                 !.viewUp =
                     <<viewUp[1] * cos + viewUp[3] * sin,
                       viewUp[2],
                       -viewUp[1] * sin + viewUp[3] * cos>>]
         [] ToLowerCase(axis) = "z" ->
              [cam EXCEPT
                 !.position =
                     <<focalPoint[1] + direction[1] * cos - direction[2] * sin,
                       focalPoint[2] + direction[1] * sin + direction[2] * cos,
                       position[3]>>,
                 !.viewUp =
                     <<viewUp[1] * cos - viewUp[2] * sin,
                       viewUp[1] * sin + viewUp[2] * cos,
                       viewUp[3]>>]
         [] OTHER -> cam

RotateOutcome(axis) ==
    IF ~viewport THEN "no viewport"
    ELSE IF ToLowerCase(axis) \in {"x", "y", "z"} THEN "rotated"
    ELSE IF ToLowerCase(axis) = "o" THEN "error caught"
    ELSE "invalid"

\* The camera before the call that this rotateAroundAxis(axis, degrees)
\* undoes: the previous call rotated about the same axis by -degrees.
Undone(axis, degrees) ==
    IF /\ lastOp.op = "rotateAroundAxis"
       /\ lastOp.outcome = "rotated"
       /\ ToLowerCase(lastOp.name) = ToLowerCase(axis)
       /\ lastOp.degrees = -degrees
    THEN lastOp.before
    ELSE NoCamera

rotateAroundAxis(axis, degrees) ==
    /\ camera' = IF viewport
                 THEN RotateAroundAxisCamera(camera, axis, degrees)
                 ELSE camera
    /\ lastOp' = [Call("rotateAroundAxis", axis, RotateOutcome(axis))
                     EXCEPT !.degrees = degrees,
                            !.before = camera,
                            !.undone = IF RotateOutcome(axis) = "rotated"
                                       THEN Undone(axis, degrees)
                                       ELSE NoCamera,
                            !.rendered = (RotateOutcome(axis) = "rotated")]
    /\ UNCHANGED <<toolVars, lifeVars, tfVars, rotation, blendMode,
                   actorBounds, appVars>>

\* setPresetView with a default case that falls through to setCamera: the
\* camera goes back with the focal point moved to the centre.
SetPresetViewCameraDefaultFallsThrough(cam, bounds, view) ==
    LET center == Center(bounds)
        diagonal == 10 * Diagonal(bounds)
        c == [cam EXCEPT !.focalPoint = center]
    IN CASE ToLowerCase(view) = "anterior" ->
              [c EXCEPT !.position = <<center[1], center[2] - diagonal,
                                       center[3]>>,
                        !.viewUp = <<0, 0, 1>>]
         [] ToLowerCase(view) = "posterior" ->
              [c EXCEPT !.position = <<center[1], center[2] + diagonal,
                                       center[3]>>,
                        !.viewUp = <<0, 0, 1>>]
         [] ToLowerCase(view) = "left" ->
              [c EXCEPT !.position = <<center[1] - diagonal, center[2],
                                       center[3]>>,
                        !.viewUp = <<0, 0, 1>>]
         [] ToLowerCase(view) = "right" ->
              [c EXCEPT !.position = <<center[1] + diagonal, center[2],
                                       center[3]>>,
                        !.viewUp = <<0, 0, 1>>]
         [] ToLowerCase(view) = "superior" ->
              [c EXCEPT !.position = <<center[1], center[2],
                                       center[3] + diagonal>>,
                        !.viewUp = <<0, 1, 0>>]
         [] ToLowerCase(view) = "inferior" ->
              [c EXCEPT !.position = <<center[1], center[2],
                                       center[3] - diagonal>>,
                        !.viewUp = <<0, 1, 0>>]
         [] OTHER -> c

\* The camera setPresetView hands to viewport.setCamera (tenths).
SetPresetViewCamera(cam, bounds, view) ==
    LET center == Center(bounds)
        diagonal == 10 * Diagonal(bounds)
        c == [cam EXCEPT !.focalPoint = center]
    IN CASE ToLowerCase(view) = "anterior" ->
              [c EXCEPT !.position = <<center[1], center[2] - diagonal,
                                       center[3]>>,
                        !.viewUp = <<0, 0, 1>>]
         [] ToLowerCase(view) = "posterior" ->
              [c EXCEPT !.position = <<center[1], center[2] + diagonal,
                                       center[3]>>,
                        !.viewUp = <<0, 0, 1>>]
         [] ToLowerCase(view) = "left" ->
              [c EXCEPT !.position = <<center[1] - diagonal, center[2],
                                       center[3]>>,
                        !.viewUp = <<0, 0, 1>>]
         [] ToLowerCase(view) = "right" ->
              [c EXCEPT !.position = <<center[1] + diagonal, center[2],
                                       center[3]>>,
                        !.viewUp = <<0, 0, 1>>]
         [] ToLowerCase(view) = "superior" ->
              [c EXCEPT !.position = <<center[1], center[2],
                                       center[3] + diagonal>>,
                        !.viewUp = <<0, 1, 0>>]
         [] ToLowerCase(view) = "inferior" ->
              [c EXCEPT !.position = <<center[1], center[2],
                                       center[3] - diagonal>>,
                        !.viewUp = <<0, 1, 0>>]
         [] OTHER -> cam

PresetViews == {"anterior", "posterior", "left", "right", "superior",
                "inferior"}

\* setPresetView(view): no viewport, no volume in the cache under the
\* viewer's volume id, one of the six views, or the default case.
SetPresetViewOutcome(view) ==
    IF ~viewport THEN "no viewport"
    ELSE IF cacheVolume = NoVolume THEN "no volume"
    ELSE IF ToLowerCase(view) \in PresetViews THEN "set"
    ELSE "invalid"

setPresetView(view) ==
    /\ camera' = IF SetPresetViewOutcome(view) \in {"set", "invalid"}
                 THEN SetPresetViewCamera(camera, cacheBounds, view)
                 ELSE camera
    /\ lastOp' = [Call("setPresetView", view, SetPresetViewOutcome(view))
                     EXCEPT !.rendered = (SetPresetViewOutcome(view) = "set")]
    /\ UNCHANGED <<toolVars, lifeVars, tfVars, rotation, blendMode,
                   actorBounds, appVars>>

\* applyRandomRotation(): random is the value of Math.random() * 360.
applyRandomRotation(random) ==
    /\ rotation' = IF viewport THEN random ELSE rotation
    /\ lastOp' = [Call("applyRandomRotation", "",
                       IF viewport THEN "applied" ELSE "no viewport")
                     EXCEPT !.rendered = viewport]
    /\ UNCHANGED <<toolVars, lifeVars, tfVars, camera, blendMode,
                   actorBounds, appVars>>

\* What the engine's viewport.resetCamera() may leave behind: the camera and
\* the presentation rotation as they are, or the engine's own.
EngineResetCamera(cam, kept) == IF kept THEN cam ELSE EngineCamera
EngineResetRotation(rot, kept) == IF kept THEN rot ELSE EngineRotation

\* resetCamera(): viewport.resetCamera(), then setupInitialCamera() with
\* the volume found in the cache.
resetCamera(cameraKept, rotationKept) ==
    /\ IF viewport
       THEN /\ camera' = SetupInitialCamera(
                             EngineResetCamera(camera, cameraKept),
                             cacheBounds)
            /\ rotation' = EngineResetRotation(rotation, rotationKept)
       ELSE UNCHANGED <<camera, rotation>>
    /\ lastOp' = [Call("resetCamera", "",
                       IF viewport THEN "reset" ELSE "no viewport")
                     EXCEPT !.rendered = viewport]
    /\ UNCHANGED <<toolVars, lifeVars, tfVars, blendMode, actorBounds,
                   appVars>>

\* The keys of an entry of viewport.getActors(); the viewer's other methods
\* reach the vtk actor through entry.actor.
ActorEntryKeys == {"uid", "actor"}

\* The mapper's blend mode for a rendering mode (default: Composite).
BlendModeOf(mode) ==
    CASE mode = "MIP" -> "MaximumIntensity"
      [] mode = "MinIP" -> "MinimumIntensity"
      [] OTHER -> "Composite"

\* setRenderingMode(mode): volumeActors[0].getMapper() is called on the
\* entry itself; where the entry has no such member the call throws a
\* TypeError, which the catch swallows.
SetRenderingModeOutcome ==
    IF NoVolumeAvailable THEN "no volume"
    ELSE IF ~actorPresent THEN "no actor"
    ELSE IF "getMapper" \notin ActorEntryKeys THEN "error caught"
    ELSE "set"

\* setRenderingMode with a try block that first puts the viewport's preset
\* back (the engine's transfer functions) on the bound actor.
setRenderingModeReappliesPreset(mode) ==
    /\ blendMode' = IF SetRenderingModeOutcome = "set"
                    THEN BlendModeOf(mode)
                    ELSE blendMode
    /\ IF SetRenderingModeOutcome \in {"set", "error caught"}
       THEN /\ scalarOpacity' = EngineScalarOpacity
            /\ rgbTransferFunction' = EngineRGBTransferFunction
       ELSE UNCHANGED <<scalarOpacity, rgbTransferFunction>>
    /\ lastOp' = [Call("setRenderingMode", mode, SetRenderingModeOutcome)
                     EXCEPT !.rendered = (SetRenderingModeOutcome = "set")]
    /\ UNCHANGED <<toolVars, lifeVars, globalOpacityMultiplier, voiRange,
                   transferFunctionPoints, camera, rotation, actorBounds,
                   appVars>>

setRenderingMode(mode) ==
    /\ blendMode' = IF SetRenderingModeOutcome = "set"
                    THEN BlendModeOf(mode)
                    ELSE blendMode
    /\ lastOp' = [Call("setRenderingMode", mode, SetRenderingModeOutcome)
                     EXCEPT !.rendered = (SetRenderingModeOutcome = "set")]
    /\ UNCHANGED <<toolVars, lifeVars, tfVars, camera, rotation,
                   actorBounds, appVars>>

\* The methods whose body past the guard is one try block with a catch that
\* only logs.
SwallowingOps ==
    {"rotateAroundAxis", "setPresetView", "resetCamera", "setActiveTool",
     "setRotationEnabled", "setRenderingMode", "setWindowLevel",
     "setRGBTransferFunction", "setVolumeOpacity", "setTissueOpacities",
     "apply3DPreset"}

\* The guard in front of a method's try block lets the call through.
ReachesTryBlock(op) ==
    CASE op \in {"setActiveTool", "setRotationEnabled"} -> toolGroup
      [] op \in {"rotateAroundAxis", "setPresetView", "resetCamera"} ->
             viewport
      [] OTHER -> ~NoVolumeAvailable

\* A call of one of these methods in which the first call into the engine
\* or the tool group throws: control goes to the catch block with nothing
\* written yet.
engineThrows(op) ==
    /\ ReachesTryBlock(op)
    /\ lastOp' = EngineFailure(op)
    /\ UNCHANGED <<toolVars, lifeVars, tfVars, viewVars, appVars>>

\* Inputs of the camera and rendering-mode calls.
AxisInputs == {"x", "y", "Z", "o", "w"}
AngleInputs == {90, -90}
ViewInputs == {"anterior", "Superior", "oblique"}
PresetViewInputs == PresetViews \cup {"Superior", "oblique"}
RandomInputs == {123}
ModeInputs == {"VR", "MIP", "MinIP", "XRay"}

---------------------------------------------------------------------------
(* Inputs of the transfer-function calls *)

\* The app's 'ct-bone' preset (colours in tenths, opacity in hundredths).
ColorsCTBone ==
    << [value |-> -1000, color |-> <<0, 0, 0>>],
       [value |-> 200, color |-> <<8, 6, 4>>],
       [value |-> 800, color |-> <<10, 9, 8>>],
       [value |-> 2000, color |-> <<10, 10, 10>>] >>

ColorsTwoStops ==
    << [value |-> -1000, color |-> <<0, 0, 0>>],
       [value |-> 2000, color |-> <<10, 10, 10>>] >>

\* Two stops, the second one without its color field.
ColorsSecondWithoutColor ==
    << [value |-> -1000, color |-> <<0, 0, 0>>],
       [value |-> 2000] >>

PresetCTBone ==
    [name |-> "ct-bone", colorPoints |-> ColorsCTBone,
     windowLevel |-> << [width |-> 2000, center |-> 300] >>,
     opacity |-> << 70 >>]

\* Presets lacking fields, as apply3DPreset accepts any object.
PresetWindowOnly ==
    [name |-> "window-only", colorPoints |-> << >>,
     windowLevel |-> << [width |-> 400, center |-> 50] >>,
     opacity |-> << >>]

PresetColorsOnly ==
    [name |-> "colors-only", colorPoints |-> ColorsTwoStops,
     windowLevel |-> << >>, opacity |-> << >>]

PresetOpacityOnly ==
    [name |-> "opacity-only", colorPoints |-> << >>,
     windowLevel |-> << >>, opacity |-> << 50 >>]

PresetEmpty ==
    [name |-> "empty", colorPoints |-> << >>, windowLevel |-> << >>,
     opacity |-> << >>]

PresetInputs == {PresetCTBone, PresetWindowOnly, PresetColorsOnly,
                 PresetOpacityOnly, PresetEmpty}

PresetNamed(name) == CHOOSE p \in PresetInputs : p.name = name

WindowInputs ==
    { [width |-> 255, center |-> 128], [width |-> 0, center |-> 50],
      [width |-> -100, center |-> 50] }

OpacityInputs == {50, 150}

ColorInputs ==
    { [name |-> "two-stops", colorPoints |-> ColorsTwoStops],
      [name |-> "second-without-color",
       colorPoints |-> ColorsSecondWithoutColor] }

ColorsNamed(name) == (CHOOSE c \in ColorInputs : c.name = name).colorPoints

\* Names handed to applyOpacityPreset: two of the table, one that is not a
\* preset, one inherited from Object.prototype.
OpacityPresetInputs == {"bone", "opaque", "none", "constructor"}

\* Maps handed to setTissueOpacities, as their Object.entries (opacity in
\* hundredths): the app's one-tissue maps, two tissues, no entry, a key
\* without a range, and a key inherited from Object.prototype.
TissueInputs ==
    { [name |-> "bone", entries |-> << <<"bone", 70>> >>],
      [name |-> "softtissue-bone",
       entries |-> << <<"softtissue", 30>>, <<"bone", 70>> >>],
      [name |-> "bone-muscle",
       entries |-> << <<"bone", 40>>, <<"muscle", 50>> >>],
      [name |-> "muscle", entries |-> << <<"muscle", 50>> >>],
      [name |-> "empty", entries |-> << >>],
      [name |-> "constructor", entries |-> << <<"constructor", 50>> >>] }

TissuesNamed(name) == (CHOOSE t \in TissueInputs : t.name = name).entries

\* imageIds.length of the volumes bound while the transfer function is
\* exercised (the slice count plays no part in it).
TransferSlices == {2}

---------------------------------------------------------------------------
(* DicomLoader: loadDicomFile, loadMultipleDicomFiles *)

\* The longest list of files handed to the loader.
MaxFiles == 3

\* File objects: the name with its (lower-cased) extension, the MIME type
\* the browser reports, and the InstanceNumber of the slice in the file,
\* if it carries one.  imageId is the id the file manager gives the blob.
SliceA == [imageId |-> 1, name |-> "a.dcm", extension |-> ".dcm",
           type |-> "", instanceNumber |-> << 2 >>]
SliceB == [imageId |-> 2, name |-> "b.dcm", extension |-> ".dcm",
           type |-> "application/dicom", instanceNumber |-> << 1 >>]
SliceC == [imageId |-> 3, name |-> "c.dicom", extension |-> ".dicom",
           type |-> "application/octet-stream", instanceNumber |-> << >>]
Notes  == [imageId |-> 4, name |-> "notes.txt", extension |-> ".txt",
           type |-> "text/plain", instanceNumber |-> << >>]
FilePool == {SliceA, SliceB, SliceC, Notes}

\* The lists of up to MaxFiles distinct files.
FileLists ==
    UNION { {fs \in [1..n -> FilePool] :
                \A i, j \in 1..n : i # j => fs[i] # fs[j]} : n \in 0..MaxFiles }

\* Per position in the list: reading and decoding the file succeeds.
ReadOutcomes == [1..MaxFiles -> BOOLEAN]

\* isDicomFile(file): a DICOM extension and a MIME type that fits.
IsDicomFile(file) ==
    /\ file.extension \in {".dcm", ".dicom"}
    /\ file.type \in {"application/dicom", "application/octet-stream", ""}

\* The settled promise of loadDicomFile(file).
LoadDicomFile(file, read) ==
    IF ~IsDicomFile(file)
    THEN [status |-> "rejected", reason |-> "Invalid DICOM file"]
    ELSE IF ~read
    THEN [status |-> "rejected", reason |-> "Failed to load DICOM image"]
    ELSE [status |-> "fulfilled",
          value |-> [imageId |-> file.imageId, fileName |-> file.name]]

\* Promise.allSettled(loadPromises): one result per file, in input order.
AllSettled(files, reads) ==
    [i \in 1..Len(files) |-> LoadDicomFile(files[i], reads[i])]

\* results.forEach with the rejected results left out of `failed`.
RECURSIVE ForEachResultDropsFailed(_, _, _, _)
ForEachResultDropsFailed(results, files, index, acc) ==
    IF index > Len(results)
    THEN acc
    ELSE ForEachResultDropsFailed(results, files, index + 1,
             IF results[index].status = "fulfilled"
             THEN [acc EXCEPT !.successful = Append(@, results[index].value)]
             ELSE IF results[index].reason = "Invalid DICOM file"
             THEN acc
             ELSE [acc EXCEPT !.failed =
                       Append(@, [file |-> files[index].name,
                                  error |-> results[index].reason])])

\* results.forEach((result, index) => ...): a fulfilled result is pushed to
\* `successful`, a rejected one to `failed` with the file's name.
RECURSIVE ForEachResult(_, _, _, _)
ForEachResult(results, files, index, acc) ==
    IF index > Len(results)
    THEN acc
    ELSE ForEachResult(results, files, index + 1,
             IF results[index].status = "fulfilled"
             THEN [acc EXCEPT !.successful = Append(@, results[index].value)]
             ELSE [acc EXCEPT !.failed =
                       Append(@, [file |-> files[index].name,
                                  error |-> results[index].reason])])

\* No loadMultipleDicomFiles has settled.
NoResults ==
    [successful |-> << >>, failed |-> << >>, total |-> 0, status |-> "none"]

\* What loadMultipleDicomFiles(files) resolves with.
LoadMultipleDicomFiles(files, reads) ==
    [ForEachResult(AllSettled(files, reads), files, 1, NoResults)
        EXCEPT !.total = Len(files), !.status = "resolved"]

\* loadMultipleDicomFiles(files) called on the loader and settled.
loadMultipleDicomFiles(reads) ==
    /\ uploadResults = NoResults
    /\ uploadResults' = LoadMultipleDicomFiles(uploadFiles, reads)
    /\ lastOp' = Call("loadMultipleDicomFiles", "", "resolved")
    /\ UNCHANGED <<toolVars, lifeVars, tfVars, viewVars, startVars,
                   appLoadPc, uploadFiles, appImageIds, activeButton,
                   sliderVars>>

---------------------------------------------------------------------------
(* MedicalImagingApp: tool buttons, keyboard shortcuts, preset selector,
   opacity slider, file upload, destroy() (src/unnamed/part_000) *)

\* The displayVolume() that loadVolumeFromFiles awaits has settled: the rest
\* of loadVolumeFromFiles is due and runs before any other event is handled.
ContinuationDue == appLoadPc = "display" /\ dvPc = "idle"

\* The app's tool names and the ids of their buttons.
AppToolNames == {"Rotate", "Pan", "Zoom", "Opacity"}

ButtonOf(toolName) ==
    CASE toolName = "Rotate" -> "rotate-tool"
      [] toolName = "Pan" -> "pan-tool"
      [] toolName = "Zoom" -> "zoom-tool"
      [] toolName = "Opacity" -> "opacity-tool"

\* toolMap[toolName] of the app's setActiveTool.
AppToolMapLookup(toolName) ==
    CASE toolName = "Rotate" -> "TrackballRotate"
      [] toolName = "Pan" -> "Pan"
      [] toolName = "Zoom" -> "Zoom"
      [] OTHER -> Undefined

\* The tool options the app's setActiveTool(toolName, button) leaves:
\* if (viewerTool) this.volumeViewer?.setActiveTool(viewerTool).
AppSetActiveToolOptions(toolName) ==
    IF AppToolMapLookup(toolName) # Undefined /\ appViewer /\ toolGroup
    THEN SetActiveToolOptions(toolOptions, AppToolMapLookup(toolName))
    ELSE toolOptions

\* A click on one of the four tool buttons.
toolButtonClick(toolName) ==
    /\ appListening
    /\ ~ContinuationDue
    /\ activeButton' = ButtonOf(toolName)
    /\ toolOptions' = AppSetActiveToolOptions(toolName)
    /\ lastOp' = [Call("toolButtonClick", toolName,
                       IF AppToolMapLookup(toolName) = Undefined
                       THEN "no viewer tool" ELSE "set")
                     EXCEPT !.stages =
                         IF AppToolMapLookup(toolName) # Undefined
                            /\ appViewer
                         THEN <<"setActiveTool", AppToolMapLookup(toolName)>>
                         ELSE << >>]
    /\ UNCHANGED <<toolGroup, lifeVars, tfVars, viewVars, startVars,
                   uploadVars, sliderVars>>

\* The switch of handleKeyboardShortcuts: the tool a key selects, the
\* rendering mode a key asks for.
KeyTool(key) ==
    CASE key = "r" -> "Rotate"
      [] key = "p" -> "Pan"
      [] key = "z" -> "Zoom"
      [] key = "o" -> "Opacity"
      [] OTHER -> ""

KeyMode(key) ==
    CASE key = "1" -> "VR"
      [] key = "2" -> "MIP"
      [] key = "3" -> "MinIP"
      [] OTHER -> ""

\* The viewer call a handled key ends in.
KeyCalls(key) ==
    IF KeyTool(key) # "" /\ AppToolMapLookup(KeyTool(key)) # Undefined
    THEN <<"setActiveTool", AppToolMapLookup(KeyTool(key))>>
    ELSE IF key = "f" THEN <<"resetCamera", "">>
    ELSE IF KeyMode(key) # "" THEN <<"setRenderingMode", KeyMode(key)>>
    ELSE << >>

\* if (!this.isInitialized) return
KeysIgnored == ~appIsInitialized

\* handleKeyboardShortcuts(e), key = e.key.toLowerCase(); cameraKept and
\* rotationKept are what the engine's viewport.resetCamera() does.
handleKeyboardShortcuts(key, cameraKept, rotationKept) ==
    /\ appListening
    /\ ~ContinuationDue
    /\ activeButton' = IF ~KeysIgnored /\ KeyTool(key) # ""
                       THEN ButtonOf(KeyTool(key)) ELSE activeButton
    /\ toolOptions' = IF ~KeysIgnored /\ KeyTool(key) # ""
                      THEN AppSetActiveToolOptions(KeyTool(key))
                      ELSE toolOptions
    /\ IF ~KeysIgnored /\ key = "f" /\ appViewer /\ viewport
       THEN /\ camera' = SetupInitialCamera(
                             EngineResetCamera(camera, cameraKept),
                             cacheBounds)
            /\ rotation' = EngineResetRotation(rotation, rotationKept)
       ELSE UNCHANGED <<camera, rotation>>
    /\ blendMode' = IF /\ ~KeysIgnored /\ KeyMode(key) # "" /\ appViewer
                       /\ SetRenderingModeOutcome = "set"
                    THEN BlendModeOf(KeyMode(key)) ELSE blendMode
    /\ appMessage' = IF ~KeysIgnored /\ key = "f" THEN "success"
                                                  ELSE appMessage
    /\ lastOp' = [Call("handleKeyboardShortcuts", key,
                       IF KeysIgnored THEN "not initialized"
                       ELSE IF KeyTool(key) # "" \/ KeyMode(key) # ""
                               \/ key = "f"
                            THEN "handled" ELSE "no shortcut")
                     EXCEPT !.stages = IF KeysIgnored \/ ~appViewer
                                       THEN << >> ELSE KeyCalls(key)]
    /\ UNCHANGED <<toolGroup, lifeVars, tfVars, actorBounds,
                   appIsInitialized, appPc, appLoading, appViewer,
                   appListening, uploadVars, sliderVars>>

\* The app's seven 3D presets (colours in tenths, opacity in hundredths);
\* 'ct-bone' is PresetCTBone.
PresetCTSoftTissue ==
    [name |-> "ct-soft-tissue",
     colorPoints |-> << [value |-> -100, color |-> <<0, 0, 0>>],
                        [value |-> 0, color |-> <<6, 4, 3>>],
                        [value |-> 100, color |-> <<9, 7, 6>>],
                        [value |-> 200, color |-> <<10, 8, 7>>] >>,
     windowLevel |-> << [width |-> 400, center |-> 50] >>,
     opacity |-> << 60 >>]

PresetCTLung ==
    [name |-> "ct-lung",
     colorPoints |-> << [value |-> -1000, color |-> <<0, 0, 0>>],
                        [value |-> -800, color |-> <<2, 3, 6>>],
                        [value |-> -300, color |-> <<4, 6, 8>>],
                        [value |-> 100, color |-> <<8, 9, 10>>] >>,
     windowLevel |-> << [width |-> 1500, center |-> -600] >>,
     opacity |-> << 50 >>]

PresetCTAngiography ==
    [name |-> "ct-angiography",
     colorPoints |-> << [value |-> -100, color |-> <<0, 0, 0>>],
                        [value |-> 100, color |-> <<3, 1, 1>>],
                        [value |-> 300, color |-> <<8, 2, 2>>],
                        [value |-> 500, color |-> <<10, 4, 4>>] >>,
     windowLevel |-> << [width |-> 600, center |-> 100] >>,
     opacity |-> << 80 >>]

PresetMRIBrain ==
    [name |-> "mri-brain",
     colorPoints |-> << [value |-> 0, color |-> <<0, 0, 0>>],
                        [value |-> 64, color |-> <<2, 2, 4>>],
                        [value |-> 153, color |-> <<6, 6, 8>>],
                        [value |-> 255, color |-> <<9, 9, 10>>] >>,
     windowLevel |-> << [width |-> 255, center |-> 128] >>,
     opacity |-> << 70 >>]

PresetPETScan ==
    [name |-> "pet-scan",
     colorPoints |-> << [value |-> 0, color |-> <<0, 0, 0>>],
                        [value |-> 1500, color |-> <<0, 0, 10>>],
                        [value |-> 3000, color |-> <<0, 10, 0>>],
                        [value |-> 4000, color |-> <<10, 10, 0>>],
                        [value |-> 5000, color |-> <<10, 0, 0>>] >>,
     windowLevel |-> << [width |-> 5000, center |-> 2500] >>,
     opacity |-> << 90 >>]

PresetContrastEnhanced ==
    [name |-> "contrast-enhanced",
     colorPoints |-> << [value |-> -100, color |-> <<0, 0, 0>>],
                        [value |-> 50, color |-> <<1, 1, 3>>],
                        [value |-> 200, color |-> <<3, 5, 8>>],
                        [value |-> 400, color |-> <<7, 8, 10>>],
                        [value |-> 600, color |-> <<10, 10, 10>>] >>,
     windowLevel |-> << [width |-> 1000, center |-> 200] >>,
     opacity |-> << 75 >>]

AppPresets ==
    {PresetCTBone, PresetCTSoftTissue, PresetCTLung, PresetCTAngiography,
     PresetMRIBrain, PresetPETScan, PresetContrastEnhanced}

\* presets[presetName] for the values of the preset selector: the preset,
\* if the table has one of that name.
AppPresetLookup(presetName) ==
    IF \E p \in AppPresets : p.name = presetName
    THEN << CHOOSE p \in AppPresets : p.name = presetName >>
    ELSE << >>

\* if (preset && this.volumeViewer): the viewer's apply3DPreset is called
\* and the sliders are set.
AppPresetApplies(presetName) ==
    /\ presetName \notin {"", "default"}
    /\ AppPresetLookup(presetName) # << >>
    /\ appViewer

\* A change of the preset selector: apply3DPreset(presetName) of the app
\* for every value but '' and 'default', then the success message.
presetSelectorChange(presetName) ==
    /\ appListening
    /\ ~ContinuationDue
    /\ IF AppPresetApplies(presetName)
       THEN StoreTF(Apply3DPresetTF(CurrentTF,
                                    AppPresetLookup(presetName)[1]),
                    Call("presetSelectorChange", presetName, TFOutcome))
       ELSE StoreTF(CurrentTF,
                    Call("presetSelectorChange", presetName, "skipped"))
    /\ opacitySlider' =
           IF AppPresetApplies(presetName)
           THEN AppPresetLookup(presetName)[1].opacity[1]
           ELSE opacitySlider
    /\ windowSliders' =
           IF AppPresetApplies(presetName)
              /\ AppPresetLookup(presetName)[1].windowLevel # << >>
           THEN AppPresetLookup(presetName)[1].windowLevel[1]
           ELSE windowSliders
    /\ appMessage' = IF presetName \notin {"", "default"} THEN "success"
                                                         ELSE appMessage
    /\ UNCHANGED <<toolVars, lifeVars, voiRange, transferFunctionPoints,
                   viewVars, appIsInitialized, appPc, appLoading, appViewer,
                   appListening, uploadVars, activeButton>>

\* An input event of the opacity slider, moved to `opacity`.
opacitySliderInput(opacity) ==
    /\ appListening
    /\ ~ContinuationDue
    /\ opacitySlider' = opacity
    /\ IF appViewer
       THEN StoreTF(SetVolumeOpacityTF(CurrentTF, opacity),
                    [Call("opacitySliderInput", "",
                          IF NoVolumeAvailable THEN "no volume" ELSE "set")
                        EXCEPT !.opacity = opacity])
       ELSE StoreTF(CurrentTF,
                    [Call("opacitySliderInput", "", "no viewer")
                        EXCEPT !.opacity = opacity])
    /\ UNCHANGED <<toolVars, lifeVars, voiRange, transferFunctionPoints,
                   viewVars, startVars, uploadVars, activeButton,
                   windowSliders>>

\* if (!files || files.length < 2)
TooFewSelected(files) == Len(files) < 2

\* if (results.successful.length < 2), with 1 for 2.
TooFewLoadedOne(results) == Len(results.successful) < 1

\* if (results.successful.length < 2)
TooFewLoaded(results) == Len(results.successful) < 2

\* results.successful.map(result => result.imageId)
ImageIdsOf(results) ==
    [i \in 1..Len(results.successful) |-> results.successful[i].imageId]

\* handleFileUpload(event) up to the await of loadMultipleDicomFiles: too
\* few files give the error message; otherwise the loading message is shown
\* and the files are handed to the loader (a TypeError once destroy() has
\* set the loader to null, which the catch block turns into the error
\* message).  One upload is in flight at a time.
handleFileUpload(files) ==
    /\ appListening
    /\ appLoadPc = "idle"
    /\ IF TooFewSelected(files)
       THEN /\ appMessage' = "error"
            /\ lastOp' = Call("handleFileUpload", "", "too few files")
            /\ UNCHANGED uploadVars
       ELSE IF ~appViewer
       THEN /\ appMessage' = "error"
            /\ lastOp' = [Call("handleFileUpload", "", "failed")
                             EXCEPT !.failed = TRUE]
            /\ UNCHANGED uploadVars
       ELSE /\ appMessage' = "loading"
            /\ appLoadPc' = "files"
            /\ uploadFiles' = files
            /\ uploadResults' = NoResults
            /\ lastOp' = Call("handleFileUpload", "", "pending")
            /\ UNCHANGED appImageIds
    /\ UNCHANGED <<toolVars, lifeVars, tfVars, viewVars, appIsInitialized,
                   appPc, appLoading, appViewer, appListening, activeButton,
                   sliderVars>>

\* loadVolumeFromFiles resumes with the loader's results: too few loaded
\* files throw; otherwise displayVolume(imageIds, metadata) is called with
\* the imageIds of the successful results and runs to its first await.
filesSettled(reads) ==
    /\ appLoadPc = "files"
    /\ uploadResults' = LoadMultipleDicomFiles(uploadFiles, reads)
    /\ UNCHANGED <<uploadFiles, appIsInitialized, appPc, appLoading,
                   appViewer, appListening, activeButton, sliderVars>>
    /\ IF TooFewLoaded(uploadResults') \/ ~appViewer
       THEN /\ appLoadPc' = "idle"
            /\ appMessage' = "error"
            /\ lastOp' = [Call("loadVolumeFromFiles", "",
                               IF TooFewLoaded(uploadResults')
                               THEN "too few loaded" ELSE "failed")
                             EXCEPT !.failed = TRUE]
            /\ UNCHANGED <<toolVars, lifeVars, tfVars, viewVars,
                           appImageIds>>
       ELSE /\ appLoadPc' = "display"
            /\ appImageIds' = ImageIdsOf(uploadResults')
            /\ DisplayVolumeUntilAwait(Len(ImageIdsOf(uploadResults')))
            /\ UNCHANGED appMessage

\* The rest of loadVolumeFromFiles, run as soon as displayVolume() has
\* settled: after a resolved displayVolume() the viewer's
\* setActiveTool('TrackballRotate') and the success message; after a
\* rejected one the error message of handleFileUpload's catch block.
loadVolumeFromFilesResume ==
    /\ ContinuationDue
    /\ appLoadPc' = "idle"
    /\ IF lastOp.op = "displayVolume" /\ lastOp.outcome = "displayed"
          /\ appViewer
       THEN /\ toolOptions' = IF toolGroup
                              THEN SetActiveToolOptions(toolOptions,
                                                        "TrackballRotate")
                              ELSE toolOptions
            /\ appMessage' = "success"
            /\ lastOp' = [Call("loadVolumeFromFiles", "", "loaded")
                             EXCEPT !.stages =
                                 <<"setActiveTool", "TrackballRotate">>]
       ELSE /\ appMessage' = "error"
            /\ lastOp' = [Call("loadVolumeFromFiles", "", "failed")
                             EXCEPT !.failed = TRUE]
            /\ UNCHANGED toolOptions
    /\ UNCHANGED <<toolGroup, lifeVars, tfVars, viewVars, appIsInitialized,
                   appPc, appLoading, appViewer, appListening, uploadFiles,
                   uploadResults, appImageIds, activeButton, sliderVars>>

\* destroy() of the app: the viewer is destroyed, viewer and loader are set
\* to null (they are constructed together and set to null together) and
\* isInitialized to false; the listeners stay registered.
appDestroy ==
    /\ appViewer
    /\ ~ContinuationDue
    /\ DestroyViewer
    /\ appViewer' = FALSE
    /\ appIsInitialized' = FALSE
    /\ UNCHANGED <<appPc, appMessage, appLoading, appListening, uploadVars,
                   activeButton, sliderVars>>

---------------------------------------------------------------------------
(* Specifications *)

\* The state after construction, but for the files at hand.
InitButFiles ==
    /\ toolGroup = FALSE
    /\ toolOptions = AddedTools
    /\ isInitialized = FALSE
    /\ renderingEngine = FALSE
    /\ viewport = FALSE
    /\ initPc = "idle"
    /\ dvPc = "idle"
    /\ dvImageIds = 0
    /\ cacheVolume = NoVolume
    /\ currentVolumeData = NoVolume
    /\ actorPresent = FALSE
    /\ actorVolume = NoVolume
    /\ dv2Pc = "idle"
    /\ dv2ImageIds = 0
    /\ destroyed = FALSE
    /\ scalarOpacity = NoPoints
    /\ rgbTransferFunction = NoPoints
    /\ globalOpacityMultiplier = EngineGlobalOpacity
    /\ voiRange = NoVoi
    /\ transferFunctionPoints = << >>
    /\ cacheBounds = NoBounds
    /\ camera = EngineCamera
    /\ rotation = EngineRotation
    /\ blendMode = EngineBlendMode
    /\ actorBounds = NoBounds
    /\ appIsInitialized = FALSE
    /\ appPc = "constructed"
    /\ appMessage = "none"
    /\ appLoading = FALSE
    /\ appViewer = FALSE
    /\ appListening = FALSE
    /\ appLoadPc = "idle"
    /\ uploadResults = NoResults
    /\ appImageIds = << >>
    /\ activeButton = "rotate-tool"
    /\ opacitySlider = 50
    /\ windowSliders = [width |-> 400, center |-> 50]
    /\ lastOp = NoOp

Init ==
    /\ InitButFiles
    /\ uploadFiles = << >>

\* A loader with a list of files to load.
LoaderInit ==
    /\ InitButFiles
    /\ uploadFiles \in FileLists

InitializeOutcomes == {"init failed", "no container", "ready"}

\* displayVolume() and destroy() on the viewer.
Display(sliceCounts, boundsChoices, voiChoices) ==
    \/ \E n \in sliceCounts : displayVolumeBegin(n)
    \/ \E ok \in BOOLEAN, bounds \in boundsChoices :
           displayVolumeCreated(ok, bounds)
    \/ \E ok \in BOOLEAN : displayVolumeLoaded(ok)
    \/ \E ok \in BOOLEAN, voi \in voiChoices : displayVolumeBound(ok, voi)
    \/ destroy

Lifecycle(sliceCounts, boundsChoices, voiChoices) ==
    \/ initializeBegin
    \/ \E outcome \in InitializeOutcomes : initializeResume(outcome)
    \/ Display(sliceCounts, boundsChoices, voiChoices)

ToolNext ==
    \/ \E enabled \in BOOLEAN : setRotationEnabled(enabled)
    \/ \E toolName \in ToolNameInputs : setActiveTool(toolName)
    \/ Lifecycle(0..MaxSlices, {BoundsBox}, EngineVoiRanges)

TransferNext ==
    \/ Lifecycle(TransferSlices, {BoundsBox}, EngineVoiRanges)
    \/ \E w \in WindowInputs : setWindowLevel(w.width, w.center)
    \/ \E c \in ColorInputs : setRGBTransferFunction(c.name, c.colorPoints)
    \/ \E opacity \in OpacityInputs : setVolumeOpacity(opacity)
    \/ \E preset \in PresetInputs : apply3DPreset(preset)

\* The tool state machine with the viewer's lifecycle.
ToolSpec == Init /\ [][ToolNext]_vars

\* The transfer-function and preset pipeline with the viewer's lifecycle.
TransferSpec == Init /\ [][TransferNext]_vars

\* The global opacity multiplier and the tissue opacities with the viewer's
\* lifecycle.
OpacityNext ==
    \/ Lifecycle(TransferSlices, {BoundsBox}, {NoVoi})
    \/ \E opacity \in OpacityInputs : setVolumeOpacity(opacity)
    \/ \E presetName \in OpacityPresetInputs : applyOpacityPreset(presetName)
    \/ \E preset \in {PresetOpacityOnly, PresetCTBone} : apply3DPreset(preset)
    \/ \E t \in TissueInputs : setTissueOpacities(t.name, t.entries)

OpacitySpec == Init /\ [][OpacityNext]_vars

\* One call of every camera, tool, rendering-mode and transfer-function
\* method, each also with the engine throwing, around and during
\* displayVolume.
ViewerNext ==
    \/ Lifecycle(TransferSlices, {BoundsOffCentre}, {NoVoi})
    \/ \E toolName \in {"Pan"} : setActiveTool(toolName)
    \/ \E enabled \in {FALSE} : setRotationEnabled(enabled)
    \/ \E axis \in {"x"}, degrees \in {180} : rotateAroundAxis(axis, degrees)
    \/ \E view \in {"anterior"} : setPresetView(view)
    \/ \E cameraKept \in {TRUE}, rotationKept \in {TRUE} :
           resetCamera(cameraKept, rotationKept)
    \/ \E mode \in {"MIP"} : setRenderingMode(mode)
    \/ \E w \in {[width |-> 255, center |-> 128]} :
           setWindowLevel(w.width, w.center)
    \/ \E c \in {[name |-> "two-stops", colorPoints |-> ColorsTwoStops]} :
           setRGBTransferFunction(c.name, c.colorPoints)
    \/ \E opacity \in {50} : setVolumeOpacity(opacity)
    \/ \E preset \in {PresetOpacityOnly} : apply3DPreset(preset)
    \/ \E t \in {[name |-> "bone", entries |-> << <<"bone", 70>> >>]} :
           setTissueOpacities(t.name, t.entries)
    \/ \E op \in SwallowingOps : engineThrows(op)

ViewerSpec == Init /\ [][ViewerNext]_vars

\* rotateAroundAxis on the cameras the lifecycle and a preset view leave.
RotateNext ==
    \/ Lifecycle(TransferSlices, {BoundsOffCentre}, {NoVoi})
    \/ \E axis \in AxisInputs, degrees \in AngleInputs :
           rotateAroundAxis(axis, degrees)
    \/ \E view \in {"Superior"} : setPresetView(view)

RotateSpec == Init /\ [][RotateNext]_vars

\* The camera and rendering-mode calls with the viewer's lifecycle
\* (rotations about one axis only, all of them in RotateSpec).
ViewNext ==
    \/ Lifecycle(TransferSlices, BoundsInputs, {NoVoi})
    \/ \E random \in RandomInputs : applyRandomRotation(random)
    \/ \E axis \in {"x"}, degrees \in {90} : rotateAroundAxis(axis, degrees)
    \/ \E cameraKept \in BOOLEAN, rotationKept \in BOOLEAN :
           resetCamera(cameraKept, rotationKept)
    \/ \E view \in ViewInputs : setPresetView(view)
    \/ \E mode \in ModeInputs : setRenderingMode(mode)

ViewSpec == Init /\ [][ViewNext]_vars

\* The six preset views and the calls with a name or an axis the switch does
\* not know, on the cameras the lifecycle, resetCamera and a rotation leave;
\* the volumes include one of zero extent.
PresetNext ==
    \/ Lifecycle(TransferSlices, {BoundsOffCentre, BoundsPoint}, {NoVoi})
    \/ \E view \in PresetViewInputs : setPresetView(view)
    \/ \E axis \in {"y", "o", "w"}, degrees \in {90} :
           rotateAroundAxis(axis, degrees)
    \/ \E cameraKept \in BOOLEAN, rotationKept \in {TRUE} :
           resetCamera(cameraKept, rotationKept)

PresetSpec == Init /\ [][PresetNext]_vars

\* The app's init() and, once it has constructed the viewer, the viewer's
\* displayVolume() and destroy().
AppNext ==
    \/ init
    \/ \E outcome \in InitializeOutcomes : initSettled(outcome)
    \/ (appPc # "constructed" /\ Display(0..MaxSlices, {BoundsBox}, EngineVoiRanges))

AppSpec == Init /\ [][AppNext]_vars

\* Slice counts of the two volumes of overlapping displayVolume() calls.
OverlapSlices == {2, 3}

\* Two displayVolume() calls, the second issued while the first is
\* suspended, with every interleaving of their continuations.  The awaited
\* engine promises resolve, except that setVolumesForViewports is rejected
\* when the cache holds no volume.
OverlapNext ==
    \/ initializeBegin
    \/ \E outcome \in {"ready"} : initializeResume(outcome)
    \/ \E n \in OverlapSlices : displayVolumeBegin(n)
    \/ \E ok \in {TRUE}, bounds \in BoundsInputs :
           displayVolumeCreated(ok, bounds)
    \/ \E ok \in {TRUE} : displayVolumeLoaded(ok)
    \/ \E ok \in {TRUE}, voi \in {NoVoi} : displayVolumeBound(ok, voi)
    \/ \E n \in OverlapSlices : displayVolumeOverlapping(n)
    \/ \E ok \in {TRUE}, bounds \in BoundsInputs :
           overlappingCreated(ok, bounds)
    \/ \E ok \in {TRUE} : overlappingLoaded(ok)
    \/ \E ok \in {TRUE}, voi \in {NoVoi} : overlappingBound(ok, voi)

OverlapSpec == Init /\ [][OverlapNext]_vars

\* loadMultipleDicomFiles on every list of files, with every combination of
\* files read and not read.
LoaderNext == \E reads \in ReadOutcomes : loadMultipleDicomFiles(reads)

LoaderSpec == LoaderInit /\ [][LoaderNext]_vars

\* Keys of the keyboard: the eight shortcuts and a key without one.
KeyInputs == {"r", "p", "z", "o", "f", "1", "2", "3", "x"}

\* The steps of a displayVolume() the app has started, and the app's
\* destroy().
AppDisplay(boundsChoices) ==
    \/ \E ok \in BOOLEAN, bounds \in boundsChoices :
           displayVolumeCreated(ok, bounds)
    \/ \E ok \in BOOLEAN : displayVolumeLoaded(ok)
    \/ \E ok \in BOOLEAN, voi \in {NoVoi} : displayVolumeBound(ok, voi)
    \/ appDestroy

\* The app's tool buttons and keyboard shortcuts around its start-up, file
\* uploads and destroy().
UiNext ==
    \/ init
    \/ \E outcome \in InitializeOutcomes : initSettled(outcome)
    \/ \E toolName \in AppToolNames : toolButtonClick(toolName)
    \/ \E key \in KeyInputs, cameraKept \in BOOLEAN, rotationKept \in {TRUE} :
           handleKeyboardShortcuts(key, cameraKept, rotationKept)
    \/ \E files \in {<<SliceA>>, <<SliceA, SliceB>>} : handleFileUpload(files)
    \/ \E reads \in ReadOutcomes : filesSettled(reads)
    \/ AppDisplay({BoundsOffCentre})
    \/ loadVolumeFromFilesResume

UiSpec == Init /\ [][UiNext]_vars

\* The lists of slices (files the loader accepts unless reading fails).
SliceLists ==
    {files \in FileLists : \A i \in 1..Len(files) : IsDicomFile(files[i])}

\* File uploads of every list of slices, each read or not read, with a tool
\* selected before or during the upload.
UploadNext ==
    \/ init
    \/ \E outcome \in InitializeOutcomes : initSettled(outcome)
    \/ \E toolName \in {"Pan"} : toolButtonClick(toolName)
    \/ \E files \in SliceLists : handleFileUpload(files)
    \/ \E reads \in ReadOutcomes : filesSettled(reads)
    \/ AppDisplay({BoundsBox})
    \/ loadVolumeFromFilesResume

UploadSpec == Init /\ [][UploadNext]_vars

\* Values of the preset selector: two presets, 'default', a value without
\* a preset.
AppPresetInputs == {"ct-bone", "ct-lung", "default", "none"}

\* The preset selector and the opacity slider around the app's start-up, a
\* file upload and destroy().
PanelNext ==
    \/ init
    \/ \E outcome \in InitializeOutcomes : initSettled(outcome)
    \/ \E presetName \in AppPresetInputs : presetSelectorChange(presetName)
    \/ \E opacity \in {30} : opacitySliderInput(opacity)
    \/ \E files \in {<<SliceA, SliceB>>} : handleFileUpload(files)
    \/ \E reads \in ReadOutcomes : filesSettled(reads)
    \/ AppDisplay({BoundsBox})
    \/ loadVolumeFromFilesResume

PanelSpec == Init /\ [][PanelNext]_vars

---------------------------------------------------------------------------
(* Properties of the tool state machine (checked under ToolSpec) *)

\* The tools active for a mouse button.
BoundTo(button) ==
    {t \in Tools : toolOptions[t].mode = "Active"
                   /\ button \in toolOptions[t].bindings}

\* The keys of the viewer's tool map.
ToolMapKeys == {"TrackballRotate", "Pan", "Zoom"}

\* C1: after setActiveTool(X), X one of the three tools and a tool group
\* present, exactly one tool is active for the Primary button, it is X, and
\* Wheel is bound to Zoom (so setActiveTool(Zoom) leaves Primary bound).
C1_SetActiveToolBindsX ==
    (lastOp.op = "setActiveTool" /\ lastOp.name \in ToolMapKeys /\ toolGroup)
        => /\ BoundTo(Primary) = {ToolMapLookup(lastOp.name)}
           /\ BoundTo(Wheel) = {ZoomTool}

\* C1 witness: setActiveTool('Zoom') has run and Zoom holds both gestures.
C1_Witness ==
    /\ lastOp.op = "setActiveTool"
    /\ lastOp.name = "Zoom"
    /\ toolGroup
    /\ toolOptions[ZoomTool].bindings = {Primary, Wheel}

\* C2 (as claimed): while a tool group exists after initialize(), Wheel is
\* bound to Zoom and exactly one of the three tools is bound to Primary.
C2_WheelZoomAndOnePrimary ==
    (toolGroup /\ isInitialized)
        => /\ BoundTo(Wheel) = {ZoomTool}
           /\ Cardinality(BoundTo(Primary)) = 1

\* C3: a setActiveTool(X) that directly follows a setActiveTool(X), X a key
\* of the tool map, leaves the tool bindings as the first call left them.
C3_SetActiveToolIdempotent ==
    [][(/\ lastOp.op = "setActiveTool"
        /\ lastOp'.op = "setActiveTool"
        /\ lastOp'.name = lastOp.name
        /\ lastOp.name \in ToolMapKeys)
           => UNCHANGED toolVars]_vars

\* C3 witness: setActiveTool('Pan') was called twice in a row on a tool group.
C3_Witness ==
    /\ lastOp.op = "setActiveTool"
    /\ lastOp.name = "Pan"
    /\ lastOp.outcome = "set"
    /\ lastOp.again
    /\ BoundTo(Primary) = {PanTool}

\* C4: right after initialize() has set up the tool group, Rotate is bound
\* to Primary, Zoom to Wheel, and Pan is passive.
C4_InitialToolState ==
    (lastOp.op = "initialize" /\ lastOp.outcome \in {"ready", "no container"})
        => /\ BoundTo(Primary) = {TrackballRotateTool}
           /\ BoundTo(Wheel) = {ZoomTool}
           /\ toolOptions[PanTool].mode = "Passive"
           /\ toolOptions[PanTool].bindings = {}

\* C4 witness: initialize() has completed.
C4_Witness ==
    /\ lastOp.op = "initialize"
    /\ lastOp.outcome = "ready"
    /\ isInitialized
    /\ toolOptions[TrackballRotateTool].bindings = {Primary}

\* C5 (as claimed): setActiveTool with a name that is no key of the tool
\* map, or without a tool group, leaves every tool binding unchanged.
C5_UnknownToolNameIsNoOp ==
    [][(/\ lastOp'.op = "setActiveTool"
        /\ (~toolGroup \/ lastOp'.name \notin ToolMapKeys))
           => UNCHANGED toolVars]_vars

---------------------------------------------------------------------------
(* Properties of the preset pipeline (checked under TransferSpec) *)

\* C6: apply3DPreset on a viewer with no viewport or no current volume
\* leaves the opacity ramp, the colour stops and the global opacity
\* multiplier unchanged and does not render.
C6_PresetWithoutVolumeIsNoOp ==
    [][(/\ lastOp'.op = "apply3DPreset"
        /\ (~viewport \/ currentVolumeData = NoVolume))
           => /\ UNCHANGED tfVars
              /\ ~lastOp'.rendered]_vars

\* C6 witness: the full preset was applied on an initialized viewer that has
\* no volume.
C6_Witness ==
    /\ lastOp.op = "apply3DPreset"
    /\ lastOp.name = "ct-bone"
    /\ viewport
    /\ currentVolumeData = NoVolume

\* C7 (as claimed): after apply3DPreset of the preset carrying window,
\* colour stops and opacity, either all three sub-states hold the preset's
\* values or none of them has changed.
C7_PresetIsAtomic ==
    [][(lastOp'.op = "apply3DPreset" /\ lastOp'.name = "ct-bone")
           => \/ /\ scalarOpacity' = WindowRamp(2000, 300)
                 /\ rgbTransferFunction' = AddRGBPoints(NoPoints, ColorsCTBone)
                 /\ globalOpacityMultiplier' = 70
              \/ UNCHANGED <<scalarOpacity, rgbTransferFunction,
                             globalOpacityMultiplier>>]_vars

\* The stages apply3DPreset has to run for a preset, in order.
ExpectedStages(preset) ==
    (IF preset.windowLevel # << >> THEN << "setWindowLevel" >> ELSE << >>)
    \o (IF preset.colorPoints # << >>
        THEN << "setRGBTransferFunction" >> ELSE << >>)
    \o (IF preset.opacity # << >> THEN << "setVolumeOpacity" >> ELSE << >>)

\* C8: an apply3DPreset call on a bound volume runs window/level, then the
\* colour stops, then the global opacity, skipping exactly the stages whose
\* preset field is absent.
C8_PresetStageOrder ==
    (lastOp.op = "apply3DPreset" /\ lastOp.outcome # "no volume")
        => lastOp.stages = ExpectedStages(PresetNamed(lastOp.name))

\* C8 witness: all three stages ran, in order, on a bound volume.
C8_Witness ==
    /\ lastOp.op = "apply3DPreset"
    /\ lastOp.outcome = "set"
    /\ lastOp.stages = << "setWindowLevel", "setRGBTransferFunction",
                          "setVolumeOpacity" >>

\* C9 (as claimed): after setWindowLevel(width, center) with width > 0 has
\* written the ramp of a bound volume, getWindowLevel() returns
\* {width, center}.
C9_WindowLevelRoundTrip ==
    (lastOp.op = "setWindowLevel" /\ lastOp.outcome = "set"
     /\ lastOp.width > 0)
        => getWindowLevel = [width |-> lastOp.width,
                             center2 |-> 2 * lastOp.center]

\* C10 (as claimed): setWindowLevel with width <= 0 leaves the opacity ramp
\* and all other render state unchanged.
C10_NonPositiveWidthRejected ==
    [][(lastOp'.op = "setWindowLevel" /\ lastOp'.width <= 0)
           => UNCHANGED tfVars]_vars

\* C11: after a setWindowLevel(width, center) call with width > 0 that found
\* the actor of a bound volume, whatever the ramp held before, the opacity
\* ramp is exactly the two nodes (center - width/2 -> 0.0) and
\* (center + width/2 -> 1.0) of that call (x doubled in the model).
C11_RampIsTwoPointsOfLastCall ==
    (lastOp.op = "setWindowLevel" /\ lastOp.outcome = "set"
     /\ lastOp.width > 0)
        => /\ scalarOpacity = {<<2 * lastOp.center - lastOp.width, 0>>,
                               <<2 * lastOp.center + lastOp.width, 1>>}
           /\ Cardinality(scalarOpacity) = 2

\* C11 witness: setWindowLevel(255, 128) has replaced the ramp of a bound
\* volume (which held the engine's or an earlier call's nodes).
C11_Witness ==
    /\ lastOp.op = "setWindowLevel"
    /\ lastOp.outcome = "set"
    /\ lastOp.width = 255
    /\ actorPresent
    /\ <<1, 0>> \in scalarOpacity

\* C12 (as claimed): a setRGBTransferFunction(stops) call leaves the colour
\* stops either exactly the given stops (none of the previous function
\* remaining) or exactly as they were; never the old stops removed and only
\* a prefix of the new ones inserted.
C12_ColorStopsAllOrNothing ==
    [][lastOp'.op = "setRGBTransferFunction"
           => LET stops == ColorsNamed(lastOp'.name)
              IN \/ /\ ~ForEachThrows(stops)
                    /\ rgbTransferFunction' =
                           {<<stops[i].value, stops[i].color>> :
                                i \in DOMAIN stops}
                 \/ UNCHANGED rgbTransferFunction]_vars

---------------------------------------------------------------------------
(* Properties of the volume lifecycle (checked under ToolSpec) *)

\* C13 (as claimed): displayVolume with fewer than 2 slice references binds
\* nothing, so the current volume, when there is one, has at least 2 slices.
C13_FewerThanTwoSlicesBindNothing ==
    currentVolumeData = NoVolume \/ currentVolumeData >= 2

\* C14: whenever createAndCacheVolume constructs the new volume of a
\* displayVolume call, the cache slot of the viewer's volume id has been
\* emptied first: the new volume is never constructed beside an old one.
C14_EvictBeforeConstruct ==
    [][(dvPc = "create" /\ dvPc' = "load")
           => /\ cacheVolume = NoVolume
              /\ cacheVolume' = dvImageIds]_vars

\* C14 witness: a second displayVolume has constructed its volume (3 slices)
\* while currentVolumeData still refers to the evicted one (2 slices).
C14_Witness ==
    /\ dvPc = "load"
    /\ cacheVolume = 3
    /\ currentVolumeData = 2

\* C15 (as claimed): when a displayVolume call has failed (at creation,
\* loading or binding), the viewer holds no current volume.
C15_FailedDisplayLeavesNoVolume ==
    (lastOp.op = "displayVolume" /\ lastOp.outcome = "failed")
        => currentVolumeData = NoVolume

---------------------------------------------------------------------------
(* Properties of the app's start-up (checked under AppSpec) *)

\* C16: a displayVolume call made while the viewer is not initialized
\* (initialize() not yet completed, or destroy() run since) ends with 'not
\* initialized' and changes no viewer state; and when the initialize() that
\* init() awaits fails, the app's isInitialized stays false and the app
\* shows an error message.
C16_NotInitializedIsRejected ==
    [][/\ (lastOp'.op = "displayVolume" /\ dvPc = "idle" /\ ~isInitialized)
             => /\ lastOp'.outcome = "not initialized"
                /\ UNCHANGED <<toolVars, lifeVars, tfVars, viewVars>>
       /\ (lastOp'.op = "initialize"
           /\ lastOp'.outcome \in {"init failed", "no container"})
             => /\ ~appIsInitialized'
                /\ appMessage' = "error"]_vars

\* C16 witness: init() has failed and a displayVolume call was then rejected.
C16_Witness ==
    /\ lastOp.op = "displayVolume"
    /\ lastOp.outcome = "not initialized"
    /\ appPc = "settled"
    /\ appMessage = "error"
    /\ ~appIsInitialized

---------------------------------------------------------------------------
(* Properties of the camera and the rendering mode (ViewSpec, RotateSpec) *)

CameraOps == {"resetCamera", "rotateAroundAxis", "setPresetView",
              "applyRandomRotation"}

\* C17 (as claimed): on an initialized viewer with no volume (none bound,
\* none cached, no current volume data), resetCamera, rotateAroundAxis,
\* setPresetView and applyRandomRotation leave the camera (position, focal
\* point, view-up, projection mode, view angle) and the presentation
\* rotation unchanged.
C17_CameraOpsWithoutVolumeAreNoOps ==
    [][(/\ lastOp'.op \in CameraOps
        /\ isInitialized /\ viewport
        /\ currentVolumeData = NoVolume
        /\ cacheVolume = NoVolume
        /\ ~actorPresent)
           => UNCHANGED <<camera, rotation>>]_vars

RenderingModes == {"VR", "MIP", "MinIP"}

\* C18 (as claimed): setRenderingMode(mode), mode one of VR, MIP, MinIP, on
\* a bound volume whose actor is in the viewport leaves the blend mode equal
\* to the requested one; with no volume or no actor it leaves the blend mode
\* unchanged.
C18_RenderingModeSetsBlendMode ==
    [][lastOp'.op = "setRenderingMode"
           => IF viewport /\ currentVolumeData # NoVolume /\ actorPresent
              THEN lastOp'.name \in RenderingModes
                       => blendMode' = BlendModeOf(lastOp'.name)
              ELSE UNCHANGED blendMode]_vars

\* The camera the claim describes for bounds: focal point at the midpoint,
\* position = focal point + diagonal * (0.8, -0.8, 0.8), view-up (0, 0, 1),
\* clipping range (0.01 * diagonal, 100 * diagonal), parallel projection.
FramedFor(cam, bounds) ==
    LET d == Diagonal(bounds)
        mid == <<5 * (bounds[1] + bounds[2]), 5 * (bounds[3] + bounds[4]),
                 5 * (bounds[5] + bounds[6])>>
    IN /\ cam.focalPoint = mid
       /\ cam.position = <<mid[1] + 8 * d, mid[2] - 8 * d, mid[3] + 8 * d>>
       /\ cam.viewUp = <<0, 0, 1>>
       /\ cam.clippingRange = <<d, 10000 * d>>
       /\ cam.parallelProjection

\* C19 (as claimed): after a successful displayVolume, and after a
\* resetCamera while the viewport shows a bound volume, the camera is the
\* one described above for the bounds of that volume.
C19_CameraFramesBoundVolume ==
    (\/ lastOp.op = "displayVolume" /\ lastOp.outcome = "displayed"
     \/ /\ lastOp.op = "resetCamera" /\ lastOp.outcome = "reset"
        /\ actorPresent /\ actorBounds # NoBounds)
        => FramedFor(camera, actorBounds)

\* C20: a rotateAroundAxis(a, -d) that directly follows a
\* rotateAroundAxis(a, d), a one of x, y, z and d a multiple of 90 degrees,
\* leaves camera position and view-up as they were before the first call.
C20_RotationIsUndone ==
    (lastOp.op = "rotateAroundAxis" /\ lastOp.undone # NoCamera)
        => /\ camera.position = lastOp.undone.position
           /\ camera.viewUp = lastOp.undone.viewUp

\* C20 witness: a rotation about y by 90 degrees that moved the camera of a
\* bound volume was undone by the rotation by -90 degrees.
C20_Witness ==
    /\ lastOp.op = "rotateAroundAxis"
    /\ lastOp.name = "y"
    /\ lastOp.degrees = -90
    /\ lastOp.undone # NoCamera
    /\ lastOp.before.position # camera.position
    /\ lastOp.before.viewUp # camera.viewUp
    /\ actorPresent

---------------------------------------------------------------------------
(* Properties of the camera calls, continued *)

\* The index of the coordinate an axis letter names (0: not an axis).
AxisIndex(axis) ==
    CASE ToLowerCase(axis) = "x" -> 1
      [] ToLowerCase(axis) = "y" -> 2
      [] ToLowerCase(axis) = "z" -> 3
      [] OTHER -> 0

\* C21: a rotateAroundAxis(a, d) with a one of x, y, z never changes the
\* focal point and leaves the a-coordinate of the camera position and of
\* the view-up vector exactly as it was; whatever else the call changes in
\* the camera is in the two other coordinates of position and view-up.
C21_RotationKeepsAxisAndFocalPoint ==
    [][(lastOp'.op = "rotateAroundAxis" /\ AxisIndex(lastOp'.name) # 0)
          => /\ camera'.focalPoint = camera.focalPoint
             /\ camera'.position[AxisIndex(lastOp'.name)]
                    = camera.position[AxisIndex(lastOp'.name)]
             /\ camera'.viewUp[AxisIndex(lastOp'.name)]
                    = camera.viewUp[AxisIndex(lastOp'.name)]
             /\ camera' = [camera EXCEPT !.position = camera'.position,
                                         !.viewUp = camera'.viewUp]]_vars

\* C21 witness: a rotation about z has moved the camera of a bound volume
\* whose position lies off the focal point's z-plane, and the z-coordinate
\* of the position is the one from before the call.
C21_Witness ==
    /\ lastOp.op = "rotateAroundAxis"
    /\ lastOp.outcome = "rotated"
    /\ AxisIndex(lastOp.name) = 3
    /\ actorPresent
    /\ lastOp.before.position # camera.position
    /\ lastOp.before.position[3] = camera.position[3]
    /\ camera.position[3] # camera.focalPoint[3]

\* C22: in every state the camera calls (setupInitialCamera/resetCamera,
\* rotateAroundAxis, setPresetView) reach on a bound volume, a volume whose
\* bounds have zero extent included, the camera position differs from the
\* focal point: the direction vector is not zero.
C22_PositionOffFocalPoint ==
    (viewport /\ actorPresent) => camera.position # camera.focalPoint

\* The displacement of the camera from the centre that a preset view asks
\* for, in units of the diagonal, and its view-up vector.
PresetDisplacement(name) ==
    CASE name = "anterior" -> <<0, -1, 0>>
      [] name = "posterior" -> <<0, 1, 0>>
      [] name = "left" -> <<-1, 0, 0>>
      [] name = "right" -> <<1, 0, 0>>
      [] name = "superior" -> <<0, 0, 1>>
      [] name = "inferior" -> <<0, 0, -1>>

PresetViewUp(name) ==
    IF name \in {"superior", "inferior"} THEN <<0, 1, 0>> ELSE <<0, 0, 1>>

\* C23: after setPresetView(name), name one of anterior, posterior, left,
\* right, superior, inferior, on a bound volume, the focal point is the
\* centre of the volume's bounds, the position is the centre displaced by
\* exactly one diagonal along one axis (anterior -y, posterior +y, left -x,
\* right +x, superior +z, inferior -z) and by nothing along the two others,
\* and view-up is (0,0,1) for the four horizontal views and (0,1,0) for
\* superior and inferior, whatever rotations came before (tenths).
C23_PresetViewGeometry ==
    (/\ lastOp.op = "setPresetView"
     /\ lastOp.name \in {"anterior", "posterior", "left", "right",
                         "superior", "inferior"}
     /\ viewport
     /\ actorPresent)
        => /\ camera.focalPoint = Center(actorBounds)
           /\ \A i \in 1..3 :
                  camera.position[i] =
                      Center(actorBounds)[i]
                      + PresetDisplacement(lastOp.name)[i]
                        * 10 * Diagonal(actorBounds)
           /\ camera.viewUp = PresetViewUp(lastOp.name)

\* How a call ends that hands no exception to its caller.
ReturnedOutcomes ==
    {"no viewport", "no volume", "no actor", "invalid", "error caught",
     "set", "rotated", "reset", "applied"}

\* C24: setPresetView with a name outside the six views, and
\* rotateAroundAxis with an axis outside x, y, z (both compared in lower
\* case; the stray 'o' case of the switch included), leave the camera
\* position, focal point and view-up as they are and do not throw.
C24_UnknownViewOrAxisIsNoOp ==
    [][(\/ /\ lastOp'.op = "setPresetView"
           /\ ToLowerCase(lastOp'.name) \notin
                  {"anterior", "posterior", "left", "right", "superior",
                   "inferior"}
        \/ /\ lastOp'.op = "rotateAroundAxis"
           /\ ToLowerCase(lastOp'.name) \notin {"x", "y", "z"})
          => /\ camera'.position = camera.position
             /\ camera'.focalPoint = camera.focalPoint
             /\ camera'.viewUp = camera.viewUp
             /\ lastOp'.outcome \in ReturnedOutcomes]_vars

\* C24 witness: setPresetView('oblique') has reached the default case of
\* the switch (viewport and cached volume present) with the camera away
\* from the volume's centre line-up, which the call left as it was.
C24_Witness ==
    /\ lastOp.op = "setPresetView"
    /\ lastOp.name = "oblique"
    /\ lastOp.outcome = "invalid"
    /\ cacheBounds # NoBounds
    /\ camera.focalPoint # Center(cacheBounds)

\* C24 witness of the rotation half: rotateAroundAxis('o', 90) has thrown
\* inside the try block on a bound volume.
C24_WitnessAxis ==
    /\ lastOp.op = "rotateAroundAxis"
    /\ lastOp.name = "o"
    /\ lastOp.outcome = "error caught"
    /\ actorPresent
    /\ camera = lastOp.before

---------------------------------------------------------------------------
(* Properties of the opacity calls (checked under OpacitySpec) *)

\* The tissue table C25 names: scalar range and colour (tenths) per tissue.
TissueTable ==
    [bone |-> [range |-> <<200, 2000>>, color |-> <<10, 9, 8>>],
     softtissue |-> [range |-> <<-100, 200>>, color |-> <<9, 7, 6>>],
     lung |-> [range |-> <<-1000, -100>>, color |-> <<4, 6, 8>>],
     vessel |-> [range |-> <<100, 400>>, color |-> <<8, 2, 2>>]]

\* The point list C25 describes for a map: per key of the table, in the
\* map's order, the range minimum and the range maximum with the tissue's
\* colour and the requested opacity; nothing for any other key.
RECURSIVE TablePoints(_)
TablePoints(entries) ==
    IF entries = << >> THEN << >>
    ELSE (IF Head(entries)[1] \in DOMAIN TissueTable
          THEN LET t == TissueTable[Head(entries)[1]]
               IN << [value |-> <<t.range[1]>>, opacity |-> Head(entries)[2],
                      color |-> t.color],
                     [value |-> <<t.range[2]>>, opacity |-> Head(entries)[2],
                      color |-> t.color] >>
          ELSE << >>)
         \o TablePoints(Tail(entries))

\* C25: setTissueOpacities(map) on a bound volume rebuilds the
\* transfer-function point list from scratch: every key of map that is in
\* the table (bone, softtissue, lung, vessel) contributes exactly its range
\* minimum and maximum with the tissue's colour and the requested opacity,
\* any other key contributes nothing, and with no key of the table in map
\* the transfer function stays as it was.
C25_TissueOpacitiesRebuildPoints ==
    [][(lastOp'.op = "setTissueOpacities" /\ viewport /\ actorPresent)
          => transferFunctionPoints' =
                 IF TablePoints(TissuesNamed(lastOp'.name)) # << >>
                 THEN TablePoints(TissuesNamed(lastOp'.name))
                 ELSE transferFunctionPoints]_vars

\* C26: in every reachable state the global opacity multiplier is a scalar
\* in [0,1] (hundredths: 0..100): no sequence of setVolumeOpacity,
\* applyOpacityPreset or apply3DPreset calls, whatever their arguments,
\* leaves a value outside that range stored as the multiplier.
C26_OpacityMultiplierInUnitRange ==
    globalOpacityMultiplier \in 0..100

---------------------------------------------------------------------------
(* Frame properties of the transfer-function and rendering-mode calls *)

\* The three sub-states of the transfer function in a render state.
SubStates(tf) ==
    <<tf.scalarOpacity, tf.rgbTransferFunction, tf.globalOpacityMultiplier>>

\* The three stages of a preset applied to the current render state in
\* each of the six orders end in the same sub-states.
StagesCommute(preset) ==
    LET W(tf) == PresetWindowStage(tf, preset)
        C(tf) == PresetColorStage(tf, preset)
        O(tf) == PresetOpacityStage(tf, preset)
        final == SubStates(O(C(W(CurrentTF))))
    IN /\ SubStates(C(O(W(CurrentTF)))) = final
       /\ SubStates(O(W(C(CurrentTF)))) = final
       /\ SubStates(W(O(C(CurrentTF)))) = final
       /\ SubStates(C(W(O(CurrentTF)))) = final
       /\ SubStates(W(C(O(CurrentTF)))) = final

\* C27: each transfer-function stage touches only its own sub-state:
\* setVolumeOpacity leaves the opacity ramp and the colour stops as they
\* are, setWindowLevel leaves the colour stops and the global opacity
\* multiplier, setRGBTransferFunction leaves the opacity ramp and the global
\* opacity multiplier; so the three stages of a preset, applied in any
\* order, end in the same state.
C27_StagesTouchOwnSubState ==
    [][/\ lastOp'.op = "setVolumeOpacity"
            => UNCHANGED <<scalarOpacity, rgbTransferFunction>>
       /\ lastOp'.op = "setWindowLevel"
            => UNCHANGED <<rgbTransferFunction, globalOpacityMultiplier>>
       /\ lastOp'.op = "setRGBTransferFunction"
            => UNCHANGED <<scalarOpacity, globalOpacityMultiplier>>
       /\ \A preset \in PresetInputs : StagesCommute(preset)]_vars

\* C27 witness: setVolumeOpacity has stored a new multiplier on a bound
\* volume whose ramp and colour stops earlier calls had set, and both are
\* still those.
C27_Witness ==
    /\ lastOp.op = "setVolumeOpacity"
    /\ lastOp.outcome = "set"
    /\ actorPresent
    /\ globalOpacityMultiplier = 50
    /\ scalarOpacity = WindowRamp(255, 128)
    /\ rgbTransferFunction = AddRGBPoints(NoPoints, ColorsTwoStops)

\* The transfer-function and the tool calls of the viewer.
TransferOps ==
    {"setWindowLevel", "setRGBTransferFunction", "setVolumeOpacity",
     "applyOpacityPreset", "setTissueOpacities", "apply3DPreset"}

ToolOps == {"setActiveTool", "setRotationEnabled"}

\* C28: setRenderingMode changes nothing but the blend mode: the camera
\* (position, focal point, view-up), the opacity ramp, the colour stops,
\* the global opacity multiplier and the tool bindings are as before the
\* call; and the camera, transfer-function and tool calls leave the blend
\* mode as it is.
C28_RenderingModeFrame ==
    [][/\ lastOp'.op = "setRenderingMode"
            => UNCHANGED <<camera, scalarOpacity, rgbTransferFunction,
                           globalOpacityMultiplier, toolOptions>>
       /\ lastOp'.op \in CameraOps \cup TransferOps \cup ToolOps
            => UNCHANGED blendMode]_vars

\* C28 witness: setRenderingMode('MIP') has run past its guard on a bound
\* volume whose ramp, colour stops, multiplier, camera and Primary binding
\* earlier calls had changed.
C28_Witness ==
    /\ lastOp.op = "setRenderingMode"
    /\ lastOp.name = "MIP"
    /\ lastOp.outcome \in {"set", "error caught"}
    /\ actorPresent
    /\ scalarOpacity = WindowRamp(255, 128)
    /\ rgbTransferFunction = AddRGBPoints(NoPoints, ColorsTwoStops)
    /\ globalOpacityMultiplier = 50
    /\ BoundTo(Primary) = {PanTool}
    /\ camera.viewUp = <<0, 0, -1>>

---------------------------------------------------------------------------
(* Calls during a pending displayVolume, and failures of the engine *)

\* C29: while a displayVolume call is suspended at one of its awaits, the
\* camera, tool and transfer-function calls act only on the volume that is
\* bound and are neither queued nor replayed; during the first load, with
\* no volume bound yet, every such call (setPresetView, which looks the
\* volume up in the cache, included) leaves the camera and the render state
\* as they are.
C29_CallsDuringFirstLoadAreNoOps ==
    [][(/\ dvPc # "idle"
        /\ ~actorPresent
        /\ lastOp'.op \in CameraOps \cup TransferOps \cup ToolOps)
          => UNCHANGED <<camera, rotation, blendMode, scalarOpacity,
                         rgbTransferFunction, globalOpacityMultiplier,
                         transferFunctionPoints>>]_vars

\* C30: a failure of the engine inside a camera, tool, rendering-mode or
\* transfer-function call (rotateAroundAxis, setPresetView, resetCamera,
\* setActiveTool, setRotationEnabled, setRenderingMode, setWindowLevel,
\* setRGBTransferFunction, setVolumeOpacity, setTissueOpacities,
\* apply3DPreset) is swallowed: the call returns and nothing reaches the
\* caller.  A failure during displayVolume (create, load or bind) reaches
\* the caller as a rejection ("failed") and the call is over: it is not
\* tried again.
C30_FailuresSwallowedOrRejected ==
    [][lastOp'.failed
          => IF lastOp'.op = "displayVolume"
             THEN /\ lastOp'.outcome = "failed"
                  /\ dvPc' = "idle"
                  /\ dvImageIds' = 0
             ELSE /\ lastOp'.op \in
                         {"rotateAroundAxis", "setPresetView", "resetCamera",
                          "setActiveTool", "setRotationEnabled",
                          "setRenderingMode", "setWindowLevel",
                          "setRGBTransferFunction", "setVolumeOpacity",
                          "setTissueOpacities", "apply3DPreset"}
                  /\ lastOp'.outcome = "error caught"]_vars

\* C30 witness: a displayVolume on a viewer that shows a volume has been
\* rejected at one of its awaits, and no call is pending.
C30_Witness ==
    /\ lastOp.op = "displayVolume"
    /\ lastOp.failed
    /\ lastOp.outcome = "failed"
    /\ actorPresent
    /\ dvPc = "idle"

\* C30 witness of the swallowed half: the engine threw inside
\* setWindowLevel on a bound volume and the call returned.
C30_WitnessSwallowed ==
    /\ lastOp.op = "setWindowLevel"
    /\ lastOp.failed
    /\ lastOp.outcome = "error caught"
    /\ actorPresent

---------------------------------------------------------------------------
(* Properties of the app (MedicalImagingApp) *)

\* C36: the 'app-loading' overlay shown at the start of init() is removed
\* on every path through init(), when the viewer's initialization succeeds
\* and when it throws: once init() has settled the overlay is gone.
C36_OverlayRemovedWhenInitSettles ==
    appPc = "settled" => ~appLoading


---------------------------------------------------------------------------
(* Properties of the rendering mode's argument (checked under ViewSpec) *)

\* C40: setRenderingMode with a mode outside {VR, MIP, MinIP}, on a bound
\* volume, is treated as an invalid argument (as setActiveTool and
\* setPresetView treat a name they do not know) and leaves the blend mode
\* unchanged.
C40_UnknownModeIsInvalidArgument ==
    [][(/\ lastOp'.op = "setRenderingMode"
        /\ lastOp'.name \notin RenderingModes
        /\ ~NoVolumeAvailable
        /\ actorPresent)
           => /\ lastOp'.outcome = "invalid"
              /\ blendMode' = blendMode]_vars


---------------------------------------------------------------------------
(* Properties of overlapping displayVolume() calls (checked under
   OverlapSpec) *)

\* C33: when a second displayVolume() was issued while the first was
\* suspended and both have settled, the later one having displayed its
\* volume, currentVolumeData describes the volume stored in the cache under
\* the volume id and bound to the viewport, and it is the later call's
\* volume: the earlier call's result does not overwrite or outlive it.
C33_OverlappingCallsAgreeOnVolume ==
    (lastOp.op = "displayVolume" /\ dvPc = "idle" /\ dv2Pc = "displayed")
        => /\ currentVolumeData = cacheVolume
           /\ actorVolume = cacheVolume
           /\ currentVolumeData = dv2ImageIds


---------------------------------------------------------------------------
(* Properties of the destroyed viewer (checked under ViewerSpec) *)

\* The fields destroy() clears.
Inert ==
    /\ ~toolGroup
    /\ ~renderingEngine
    /\ ~viewport
    /\ currentVolumeData = NoVolume
    /\ ~isInitialized

\* C34: after destroy() and until initialize() runs again, toolGroup,
\* renderingEngine, viewport and currentVolumeData are null and
\* isInitialized is false; every step taken in that time leaves the tools,
\* the transfer function and the view as they are and raises no exception,
\* and a displayVolume() issued in that time is rejected.
C34_DestroyedViewerIsInert ==
    [][destroyed'
           => /\ Inert'
              /\ destroyed
                     => /\ UNCHANGED <<toolVars, tfVars, viewVars>>
                        /\ lastOp'.op # "displayVolume" => ~lastOp'.failed
                        /\ (lastOp'.op = "displayVolume" /\ dvPc = "idle")
                               => lastOp'.outcome = "not initialized"]_vars


---------------------------------------------------------------------------
(* Properties of the app's tool buttons and keyboard shortcuts (checked
   under UiSpec) *)

\* C31: a key press handled while the app is initialized: R, P, Z leave
\* Rotate, Pan, Zoom the tool bound to the Primary button; F leaves the
\* camera framing the bound volume as after its display; 1, 2, 3 call
\* setRenderingMode with VR, MIP, MinIP.  A key press while the app is not
\* initialized changes no viewer state.
C31_KeyboardShortcuts ==
    [][lastOp'.op = "handleKeyboardShortcuts"
           => IF appIsInitialized /\ appViewer
              THEN /\ lastOp'.name = "r"
                          => (BoundTo(Primary))' = {TrackballRotateTool}
                   /\ lastOp'.name = "p" => (BoundTo(Primary))' = {PanTool}
                   /\ lastOp'.name = "z" => (BoundTo(Primary))' = {ZoomTool}
                   /\ (lastOp'.name = "f" /\ actorPresent
                           /\ actorBounds # NoBounds)
                          => FramedFor(camera', actorBounds)
                   /\ lastOp'.name = "1"
                          => lastOp'.stages = <<"setRenderingMode", "VR">>
                   /\ lastOp'.name = "2"
                          => lastOp'.stages = <<"setRenderingMode", "MIP">>
                   /\ lastOp'.name = "3"
                          => lastOp'.stages = <<"setRenderingMode", "MinIP">>
              ELSE UNCHANGED <<toolVars, lifeVars, tfVars, viewVars>>]_vars


\* The tool a tool button stands for.
ToolOfButton(button) ==
    CASE button = "rotate-tool" -> TrackballRotateTool
      [] button = "pan-tool" -> PanTool
      [] button = "zoom-tool" -> ZoomTool
      [] OTHER -> "Opacity"

\* C35: while the app is initialized, the tool button highlighted as active
\* names the tool bound to the Primary button in the viewer.
C35_HighlightedButtonIsPrimaryTool ==
    (appIsInitialized /\ appViewer)
        => BoundTo(Primary) = {ToolOfButton(activeButton)}


---------------------------------------------------------------------------
(* Properties of the file upload (checked under UploadSpec) *)

\* C37: when loadVolumeFromFiles has completed successfully, Rotate is the
\* tool bound to the Primary button and Zoom the one bound to Wheel; and
\* while a displayVolume() started by the app is under way, at least 2
\* files were selected and at least 2 of them loaded.
C37_LoadBindsRotateAndNeedsTwoFiles ==
    /\ (lastOp.op = "loadVolumeFromFiles" /\ lastOp.outcome = "loaded")
           => /\ BoundTo(Primary) = {TrackballRotateTool}
              /\ BoundTo(Wheel) = {ZoomTool}
    /\ appLoadPc = "display"
           => /\ Len(uploadFiles) >= 2
              /\ Len(uploadResults.successful) >= 2
              /\ Len(appImageIds) >= 2

\* C37 witness: an upload of three files of which one failed has completed
\* successfully with the Pan button selected beforehand.
C37_Witness ==
    /\ lastOp.op = "loadVolumeFromFiles"
    /\ lastOp.outcome = "loaded"
    /\ activeButton = "pan-tool"
    /\ Len(uploadResults.failed) = 1
    /\ BoundTo(Primary) = {TrackballRotateTool}


\* The sort key of a slice reference: the instance number of its slice, 0
\* for a slice that carries none (instanceNumber || 0).
SortKey(imageId) ==
    LET file == CHOOSE f \in FilePool : f.imageId = imageId
    IN IF file.instanceNumber # << >> THEN file.instanceNumber[1] ELSE 0

\* The position of a slice reference in the upload.
InputIndex(imageId) ==
    CHOOSE i \in 1..Len(uploadFiles) : uploadFiles[i].imageId = imageId

\* C32: the imageIds loadVolumeFromFiles hands to displayVolume are ordered
\* by the instance number of their slices, and in input order among slices
\* that carry none (or the same one).
C32_ImageIdsSortedByInstanceNumber ==
    appLoadPc = "display"
        => \A i, j \in 1..Len(appImageIds) :
               i < j => \/ SortKey(appImageIds[i]) < SortKey(appImageIds[j])
                        \/ /\ SortKey(appImageIds[i]) = SortKey(appImageIds[j])
                           /\ InputIndex(appImageIds[i])
                                  < InputIndex(appImageIds[j])


---------------------------------------------------------------------------
(* Properties of the loader (checked under LoaderSpec) *)

---------------------------------------------------------------------------
(* Properties of the preset selector and the sliders (checked under
   PanelSpec) *)

\* C39: choosing a 3D preset through the app while the viewer has no
\* volume (its apply3DPreset is then a no-op) leaves the opacity slider
\* and the window width and center sliders as they are, so that the
\* sliders go on showing the values the viewer holds.
C39_PresetWithoutVolumeKeepsSliders ==
    [][(lastOp'.op = "presetSelectorChange" /\ NoVolumeAvailable)
           => UNCHANGED <<opacitySlider, windowSliders>>]_vars

=============================================================================
